---------------------------- MODULE Spec2Model ----------------------------
(***************************************************************************)
(* Model of the slide translation pipeline of lbg-ai:                      *)
(*   backend/services/ppt_service.py   (providers, JSON repair, pipeline)  *)
(*   backend/routers/ppt_translation.py (job row, progress, cancel)        *)
(*                                                                         *)
(* Texts are sequences of one-character strings, so that the JSON repair   *)
(* and the JSON parser work on characters as the Python code does.         *)
(***************************************************************************)
EXTENDS Integers, Sequences, FiniteSets, TLC

VARIABLES
    \* ---- the request and the document (fixed during a run)
    provider,      \* "claude" | "openrouter" | "ocr_free"
    api_key,       \* "key" when a key is configured for the provider, else "None"
    same_lang,     \* source_lang == target_lang
    slides,        \* prs.slides: <<[selected, pictures], ...>>
    base_font_size, \* the form's base_font_size, in points
    \* ---- process_translation_background / create_translated_ppt
    pc,            \* position of the background task
    idx,           \* slides visited so far (the code's idx + 1 of the current slide)
    selected_slide_counter,
    stats,         \* the stats dict
    new_slides,    \* number of slides added to new_prs
    text_frames,   \* per slide of new_prs: its source slide and its text region
    result,        \* result of process_ppt_slide for the current slide
    exc,           \* message of the exception that left create_translated_ppt, or "None"
    last_call,     \* the arguments of the last call of progress_callback
    slide_status,  \* per slide, the status of the last call that named it
    \* ---- provider calls of the current slide
    vision,        \* call_claude_vision / call_openrouter_vision
    chain,         \* call_ocr_openrouter
    blocking,      \* the last blocking operation of the slide and the thread it ran on
    \* ---- the jobs row and the cancel endpoint
    job,
    cancel,        \* what the cancel endpoint answered and where the pipeline was
    \* ---- _repair_truncated_json applied to one text (SpecRepair)
    r_pc,          \* "input" | "repaired" | "parsed" | "idle"
    json_text,     \* the text handed to _repair_truncated_json
    repaired,      \* its return value: [some |-> BOOLEAN, text |-> chars]
    parsed_ok,     \* whether json.loads(repaired) succeeded
    parsed_doc,    \* _parse_vision_response of the loaded text, NoDict if none
    \* ---- reduce_font_if_overflow applied to one text frame (SpecFont)
    f_pc,          \* "loop" | "done" | "idle"
    f_frame,       \* the paragraphs of the text frame
    iteration,     \* iterations of the loop of line 1355 completed
    \* ---- ocr_extract_text applied to one page of text (SpecOcr)
    o_pc,          \* "read" | "cleaned" | "filtered" | "grouped" | "done" | "idle"
    ocr_lines,     \* the lines of the text tesseract returned
    raw_lines,     \* raw.splitlines() (line 661)
    cleaned,       \* the lines the first pass keeps (lines 720-737)
    lines_out,     \* the list lines_out
    ocr_text,      \* the lines of the returned text
    \* ---- one cancel request against the progress updates of a run (SpecRace)
    t_pc,          \* the pipeline task: "checkpoint" | "refreshed" | "provider" | ...
    t_slide,       \* the selected slide it works on
    t_phase,       \* which callback of the slide is next (index in SlideCallbacks)
    t_job,         \* the Job object of the task's session, as refreshed
    c_pc,          \* the cancel request: "idle" | "read" | "committed" | "rejected"
    calls_after_cancel, \* provider calls started after the cancel was committed
    \* ---- translate_offline called from the worker threads (SpecCache)
    ct2_translators, \* the dict _ct2_translators: pair -> instance, 0 when absent
    instantiated,  \* per pair, the translators instantiated so far
    w_pc,          \* per worker thread: "idle" | "lookup" | "load" | "store"
    w_pair,        \* per worker thread, the pair of its call
    w_translator,  \* per worker thread, the translator its call holds
    w_calls        \* per worker thread, the calls of translate_offline started

requestVars == <<provider, api_key, same_lang, slides, base_font_size>>
callbackVars == <<last_call, slide_status>>
pipelineVars ==
    <<pc, idx, selected_slide_counter, stats, new_slides, text_frames, result, exc,
      callbackVars>>
callVars == <<vision, chain, blocking>>
jobVars == <<job, cancel>>
repairVars == <<r_pc, json_text, repaired, parsed_ok, parsed_doc>>
fontVars == <<f_pc, f_frame, iteration>>
ocrVars == <<o_pc, ocr_lines, raw_lines, cleaned, lines_out, ocr_text>>
raceVars == <<t_pc, t_slide, t_phase, t_job, c_pc, calls_after_cancel>>
cacheVars == <<ct2_translators, instantiated, w_pc, w_pair, w_translator, w_calls>>

\* the variables the pipeline's actions never touch
auxVars == <<repairVars, fontVars, ocrVars, raceVars, cacheVars>>

vars == <<requestVars, pipelineVars, callVars, jobVars, auxVars>>

(***************************************************************************)
(* Characters and small string helpers                                     *)
(***************************************************************************)
Quote == "\""
Backslash == "\\"
Whitespace == {" ", "\n"}
Digit == {"0", "1", "2", "3", "4", "5", "6", "7", "8", "9"}

\* str.lstrip() / str.rstrip() / str.strip()
RECURSIVE lstrip(_)
lstrip(t) == IF t # <<>> /\ Head(t) \in Whitespace THEN lstrip(Tail(t)) ELSE t

RECURSIVE rstrip(_)
rstrip(t) ==
    IF t # <<>> /\ t[Len(t)] \in Whitespace
    THEN rstrip(SubSeq(t, 1, Len(t) - 1)) ELSE t

strip(t) == rstrip(lstrip(t))

\* str.rstrip(',')
RECURSIVE rstrip_comma(_)
rstrip_comma(t) ==
    IF t # <<>> /\ t[Len(t)] = ","
    THEN rstrip_comma(SubSeq(t, 1, Len(t) - 1)) ELSE t

(***************************************************************************)
(* json.loads on the characters the model's texts are written in           *)
(* (objects, arrays, strings with escapes, integers, true/false/null).     *)
(* A value is [t |-> type, s |-> content]:                                 *)
(*   "str"  s = characters        "num"  s = characters                    *)
(*   "arr"  s = values            "obj"  s = <<key characters, value>>s    *)
(*   "true" | "false" | "null"    s = <<>>                                 *)
(***************************************************************************)
ParseFail == [ok |-> FALSE, pos |-> 0, val |-> [t |-> "fail", s |-> <<>>]]
ParseOk(p, ty, content) == [ok |-> TRUE, pos |-> p, val |-> [t |-> ty, s |-> content]]

RECURSIVE SkipWs(_, _)
SkipWs(t, i) == IF i <= Len(t) /\ t[i] \in Whitespace THEN SkipWs(t, i + 1) ELSE i

Unescape(c) == IF c = "n" THEN "\n" ELSE c

\* the characters of a string literal from position j, just after its
\* opening quote
RECURSIVE ScanString(_, _, _)
ScanString(t, j, acc) ==
    IF j > Len(t) THEN ParseFail
    ELSE IF t[j] = Quote THEN ParseOk(j + 1, "str", acc)
    ELSE IF t[j] = Backslash THEN
        IF j + 1 > Len(t) \/ t[j + 1] \notin {Quote, Backslash, "/", "b", "f", "n", "r", "t"}
        THEN ParseFail
        ELSE ScanString(t, j + 2, Append(acc, Unescape(t[j + 1])))
    ELSE IF t[j] = "\n" THEN ParseFail
    ELSE ScanString(t, j + 1, Append(acc, t[j]))

RECURSIVE ScanDigits(_, _)
ScanDigits(t, j) == IF j <= Len(t) /\ t[j] \in Digit THEN ScanDigits(t, j + 1) ELSE j

ParseNumber(t, i) ==
    LET d == IF t[i] = "-" THEN i + 1 ELSE i IN
    IF d > Len(t) \/ t[d] \notin Digit THEN ParseFail
    ELSE LET e == IF t[d] = "0" THEN d + 1 ELSE ScanDigits(t, d)
         IN ParseOk(e, "num", SubSeq(t, i, e - 1))

ParseLiteral(t, i, word, ty) ==
    IF i + Len(word) - 1 <= Len(t) /\ SubSeq(t, i, i + Len(word) - 1) = word
    THEN ParseOk(i + Len(word), ty, <<>>)
    ELSE ParseFail

RECURSIVE ParseValue(_, _), ParseElements(_, _, _), ParseMembers(_, _, _)
ParseValue(t, i) ==
    IF i > Len(t) THEN ParseFail
    ELSE IF t[i] = Quote THEN ScanString(t, i + 1, <<>>)
    ELSE IF t[i] = "{" THEN
        LET j == SkipWs(t, i + 1) IN
        IF j <= Len(t) /\ t[j] = "}" THEN ParseOk(j + 1, "obj", <<>>)
        ELSE ParseMembers(t, j, <<>>)
    ELSE IF t[i] = "[" THEN
        LET j == SkipWs(t, i + 1) IN
        IF j <= Len(t) /\ t[j] = "]" THEN ParseOk(j + 1, "arr", <<>>)
        ELSE ParseElements(t, j, <<>>)
    ELSE IF t[i] \in Digit \cup {"-"} THEN ParseNumber(t, i)
    ELSE IF t[i] = "t" THEN ParseLiteral(t, i, <<"t", "r", "u", "e">>, "true")
    ELSE IF t[i] = "f" THEN ParseLiteral(t, i, <<"f", "a", "l", "s", "e">>, "false")
    ELSE IF t[i] = "n" THEN ParseLiteral(t, i, <<"n", "u", "l", "l">>, "null")
    ELSE ParseFail

ParseElements(t, i, acc) ==
    LET r == ParseValue(t, i) IN
    IF ~r.ok THEN ParseFail
    ELSE LET j == SkipWs(t, r.pos)
             acc2 == Append(acc, r.val)
         IN IF j > Len(t) THEN ParseFail
            ELSE IF t[j] = "]" THEN ParseOk(j + 1, "arr", acc2)
            ELSE IF t[j] = "," THEN ParseElements(t, SkipWs(t, j + 1), acc2)
            ELSE ParseFail

ParseMembers(t, i, acc) ==
    IF i > Len(t) \/ t[i] # Quote THEN ParseFail
    ELSE LET k == ScanString(t, i + 1, <<>>) IN
    IF ~k.ok THEN ParseFail
    ELSE LET c == SkipWs(t, k.pos) IN
    IF c > Len(t) \/ t[c] # ":" THEN ParseFail
    ELSE LET r == ParseValue(t, SkipWs(t, c + 1)) IN
    IF ~r.ok THEN ParseFail
    ELSE LET j == SkipWs(t, r.pos)
             acc2 == Append(acc, <<k.val.s, r.val>>)
         IN IF j > Len(t) THEN ParseFail
            ELSE IF t[j] = "}" THEN ParseOk(j + 1, "obj", acc2)
            ELSE IF t[j] = "," THEN ParseMembers(t, SkipWs(t, j + 1), acc2)
            ELSE ParseFail

\* json.loads(text): [ok |-> parsed without JSONDecodeError, val |-> value]
json_loads(t) ==
    LET r == ParseValue(t, SkipWs(t, 1)) IN
    IF r.ok /\ SkipWs(t, r.pos) > Len(t)
    THEN [ok |-> TRUE, val |-> r.val]
    ELSE [ok |-> FALSE, val |-> ParseFail.val]

(***************************************************************************)
(* _repair_truncated_json (ppt_service.py 347-402)                         *)
(***************************************************************************)
None == [some |-> FALSE, text |-> <<>>]
Some(t) == [some |-> TRUE, text |-> t]

\* The tuple of line 359, element by element.  Its fourth element is the
\* ten-character string '0123456789', which no single character equals.
BoundaryTokens == {"}", "]", Quote, "0123456789", "e", "l", "s", "n", "r", "u"}

\* lines 357-364: the last index up to i whose character is in the tuple,
\* 0 if none
LastBoundary(text, i) ==
    LET found == {k \in 1..i : text[k] \in BoundaryTokens}
    IN IF found = {} THEN 0 ELSE CHOOSE k \in found : \A j \in found : j <= k

\* lines 367-369
WalkStart == [stack |-> <<>>, in_string |-> FALSE, escape_next |-> FALSE]

\* lines 371-389: one character of the walk over candidate
WalkChar(st, ch) ==
    IF st.escape_next THEN [st EXCEPT !.escape_next = FALSE]
    ELSE IF ch = Backslash THEN [st EXCEPT !.escape_next = TRUE]
    ELSE IF ch = Quote THEN [st EXCEPT !.in_string = ~st.in_string]
    ELSE IF st.in_string THEN st
    ELSE IF ch \in {"{", "["} THEN [st EXCEPT !.stack = Append(@, ch)]
    ELSE IF ch = "}" /\ st.stack # <<>> /\ st.stack[Len(st.stack)] = "{"
        THEN [st EXCEPT !.stack = SubSeq(@, 1, Len(@) - 1)]
    ELSE IF ch = "]" /\ st.stack # <<>> /\ st.stack[Len(st.stack)] = "["
        THEN [st EXCEPT !.stack = SubSeq(@, 1, Len(@) - 1)]
    ELSE st

\* line 370: `for ch in candidate`, the characters lo..hi walked from st
\* (the range is halved, and the left half evaluated first, to keep the
\* evaluation shallow)
RECURSIVE Walk(_, _, _, _)
Walk(candidate, lo, hi, st) ==
    IF lo > hi THEN st
    ELSE IF lo = hi THEN WalkChar(st, candidate[lo])
    ELSE LET mid == (lo + hi) \div 2
             left == Walk(candidate, lo, mid, st)
         IN IF left.in_string \in BOOLEAN
            THEN Walk(candidate, mid + 1, hi, left) ELSE left

\* lines 367-389: the stack of brackets left open by candidate
OpenBrackets(candidate) == Walk(candidate, 1, Len(candidate), WalkStart).stack

\* lines 395-396: the closers of the open brackets, innermost first
RECURSIVE Closers(_)
Closers(stack) ==
    IF stack = <<>> THEN <<>>
    ELSE <<IF stack[Len(stack)] = "[" THEN "]" ELSE "}">>
         \o Closers(SubSeq(stack, 1, Len(stack) - 1))

repair_truncated_json(raw) ==
    LET text == strip(raw) IN
    IF text = <<>> THEN None
    ELSE LET i == LastBoundary(text, Len(text)) IN
    IF i = 0 THEN None
    ELSE LET candidate == SubSeq(text, 1, i)
             stack == OpenBrackets(candidate)
         IN IF stack = <<>> THEN Some(candidate)
            ELSE Some(rstrip(rstrip_comma(rstrip(candidate))) \o Closers(stack))

(***************************************************************************)
(* _parse_vision_response (ppt_service.py 289-345)                         *)
(***************************************************************************)
S_lines == <<"l", "i", "n", "e", "s">>
S_blocks == <<"b", "l", "o", "c", "k", "s">>
S_text == <<"t", "e", "x", "t">>
S_bold == <<"b", "o", "l", "d">>
S_size == <<"s", "i", "z", "e">>
S_color == <<"c", "o", "l", "o", "r">>
S_alignment == <<"a", "l", "i", "g", "n", "m", "e", "n", "t">>
S_left == <<"l", "e", "f", "t">>
S_normal == <<"n", "o", "r", "m", "a", "l">>
S_black == <<"b", "l", "a", "c", "k">>
S_red == <<"r", "e", "d">>
S_huge == <<"h", "u", "g", "e">>
S_very_large == <<"v", "e", "r", "y", "-", "l", "a", "r", "g", "e">>
S_large == <<"l", "a", "r", "g", "e">>
S_small == <<"s", "m", "a", "l", "l">>
S_tiny == <<"t", "i", "n", "y">>

JStr(chars) == [t |-> "str", s |-> chars]
JFalse == [t |-> "false", s |-> <<>>]
JArr(elems) == [t |-> "arr", s |-> elems]

\* key in dict
HasKey(obj, key) == obj.t = "obj" /\ \E i \in 1..Len(obj.s) : obj.s[i][1] = key

\* dict.get(key, default); of two equal keys json.loads keeps the last
Get(obj, key, default) ==
    IF HasKey(obj, key)
    THEN LET i == CHOOSE i \in 1..Len(obj.s) :
                      /\ obj.s[i][1] = key
                      /\ \A j \in (i + 1)..Len(obj.s) : obj.s[j][1] # key
         IN obj.s[i][2]
    ELSE default

\* Python truthiness of a parsed JSON value
Truthy(v) ==
    CASE v.t = "true" -> TRUE
      [] v.t \in {"false", "null"} -> FALSE
      [] v.t = "num" -> v.s # <<"0">>
      [] OTHER -> v.s # <<>>

\* SIZE_MAP.get(size, 0), lines 289-296 and 308
SIZE_MAP_get(size) ==
    CASE size.s = S_huge -> 7
      [] size.s = S_very_large -> 5
      [] size.s = S_large -> 3
      [] size.s = S_normal -> 0
      [] size.s = S_small -> 0 - 2
      [] size.s = S_tiny -> 0 - 4
      [] OTHER -> 0

\* lines 309-320 and 331-342: one block of the structure
ParseBlock(block, default_alignment) ==
    [ type |-> "paragraph",
      original |-> Get(block, S_text, JStr(<<>>)).s,
      translated |-> Get(block, S_text, JStr(<<>>)).s,
      formatting |->
        [ bold |-> Truthy(Get(block, S_bold, JFalse)),
          size_relative |-> SIZE_MAP_get(Get(block, S_size, JStr(S_normal))),
          color |-> Get(block, S_color, JStr(S_black)).s,
          alignment |-> Get(block, S_alignment, default_alignment).s ],
      has_emoji |-> TRUE ]

\* lines 305-324: one line of the "lines" schema
ParseLine(line) ==
    LET blocks == Get(line, S_blocks, JArr(<<>>)).s
        line_alignment == Get(line, S_alignment, JStr(S_left))
    IN [ line_blocks |-> [i \in 1..Len(blocks) |-> ParseBlock(blocks[i], line_alignment)],
         alignment |-> line_alignment.s ]

\* the dict _parse_vision_response returns, or NoDict for None
NoDict == [some |-> FALSE, variant |-> "None", structure |-> <<>>]

\* a parse that leaves out the lines without blocks
parse_vision_response_without_spacers(res) ==
    IF HasKey(res, S_lines) THEN
        LET ls == Get(res, S_lines, JArr(<<>>)).s
            all == [i \in 1..Len(ls) |-> ParseLine(ls[i])]
        IN [some |-> TRUE, variant |-> "lines",
            structure |-> SelectSeq(all, LAMBDA l : l.line_blocks # <<>>)]
    ELSE IF HasKey(res, S_blocks) THEN
        LET bs == Get(res, S_blocks, JArr(<<>>)).s
        IN [some |-> TRUE, variant |-> "blocks",
            structure |-> [i \in 1..Len(bs) |-> ParseBlock(bs[i], JStr(S_left))]]
    ELSE NoDict

parse_vision_response(res) ==
    IF HasKey(res, S_lines) THEN
        LET ls == Get(res, S_lines, JArr(<<>>)).s
        IN [some |-> TRUE, variant |-> "lines",
            structure |-> [i \in 1..Len(ls) |-> ParseLine(ls[i])]]
    ELSE IF HasKey(res, S_blocks) THEN
        LET bs == Get(res, S_blocks, JArr(<<>>)).s
        IN [some |-> TRUE, variant |-> "blocks",
            structure |-> [i \in 1..Len(bs) |-> ParseBlock(bs[i], JStr(S_left))]]
    ELSE NoDict

(***************************************************************************)
(* apply_formatting_from_structure (ppt_service.py 1407-1549)              *)
(***************************************************************************)
\* translate_ppt line 96: the form's default
default_base_font_size == 11

\* Pt(n) as the sz attribute of a run keeps it: hundredths of a point
Pt(n) == n * 100

S_center == <<"c", "e", "n", "t", "e", "r">>
S_right == <<"r", "i", "g", "h", "t">>
S_green == <<"g", "r", "e", "e", "n">>
S_blue == <<"b", "l", "u", "e">>
S_orange == <<"o", "r", "a", "n", "g", "e">>
S_grey == <<"g", "r", "e", "y">>
S_gray == <<"g", "r", "a", "y">>

UpperCase ==
    <<"A", "B", "C", "D", "E", "F", "G", "H", "I", "J", "K", "L", "M", "N",
      "O", "P", "Q", "R", "S", "T", "U", "V", "W", "X", "Y", "Z">>
LowerCase ==
    <<"a", "b", "c", "d", "e", "f", "g", "h", "i", "j", "k", "l", "m", "n",
      "o", "p", "q", "r", "s", "t", "u", "v", "w", "x", "y", "z">>

\* str.lower
lower(chars) ==
    [i \in 1..Len(chars) |->
        IF \E k \in 1..Len(UpperCase) : UpperCase[k] = chars[i]
        THEN LowerCase[CHOOSE k \in 1..Len(UpperCase) : UpperCase[k] = chars[i]]
        ELSE chars[i]]

\* lines 1430-1438 and 1463-1466: the colour a run gets; a name the map
\* lacks gets the map's black
color_map_keys == {S_green, S_blue, S_red, S_orange, S_black, S_grey, S_gray}
\* a colouring that keeps every name of the map, red without bold too
run_color_as_named(formatting) ==
    LET color_name == lower(formatting.color)
    IN IF color_name = S_gray THEN S_grey
       ELSE IF color_name \in color_map_keys THEN color_name ELSE S_black

\* lines 1463-1466 and 1544-1547
run_color(formatting) ==
    LET color_name == lower(formatting.color)
        shown == IF color_name = S_red /\ ~formatting.bold THEN S_black
                                                          ELSE color_name
    IN IF shown = S_gray THEN S_grey
       ELSE IF shown \in color_map_keys THEN shown ELSE S_black

\* lines 1443-1449
set_para_style(alignment) ==
    IF alignment = S_center THEN "CENTER"
    ELSE IF alignment = S_right THEN "RIGHT" ELSE "LEFT"

\* a slide without a text box; line 1421: a new text box holds one paragraph
NoTextbox == <<>>
add_textbox == << [alignment |-> "None", runs |-> <<>>] >>
add_paragraph(paras, alignment) ==
    Append(paras, [alignment |-> set_para_style(alignment), runs |-> <<>>])
add_run(paras, run) ==
    [paras EXCEPT ![Len(paras)].runs = Append(@, run)]

\* str.rstrip("\n") and str.lstrip("\n")
RECURSIVE rstrip_newline(_)
rstrip_newline(t) ==
    IF t # <<>> /\ t[Len(t)] = "\n" THEN rstrip_newline(SubSeq(t, 1, Len(t) - 1))
                                    ELSE t
RECURSIVE lstrip_newline(_)
lstrip_newline(t) ==
    IF t # <<>> /\ t[1] = "\n" THEN lstrip_newline(Tail(t)) ELSE t
endswith(t, chars) == t # <<>> /\ t[Len(t)] \in chars
startswith(t, chars) == t # <<>> /\ t[1] \in chars

\* a write_run that leaves out every block after the first of a paragraph
write_first_run_only(paras, text, formatting) ==
    LET clean == rstrip_newline(text)
    IN IF clean = <<>> \/ paras[Len(paras)].runs # <<>> THEN paras
       ELSE add_run(paras, [ text |-> clean, bold |-> formatting.bold,
                             size |-> Pt(base_font_size + formatting.size_relative),
                             color |-> run_color(formatting) ])

\* lines 1452-1466
write_run(paras, text, formatting) ==
    LET clean == rstrip_newline(text)
    IN IF clean = <<>> THEN paras
       ELSE add_run(paras, [ text |-> clean, bold |-> formatting.bold,
                             size |-> Pt(base_font_size + formatting.size_relative),
                             color |-> run_color(formatting) ])

\* lines 1495: the blocks of a line whose text is not empty
RECURSIVE active_blocks(_)
active_blocks(line_blocks) ==
    IF line_blocks = <<>> THEN <<>>
    ELSE IF Head(line_blocks).translated # <<>>
    THEN <<Head(line_blocks)>> \o active_blocks(Tail(line_blocks))
    ELSE active_blocks(Tail(line_blocks))

\* lines 1496-1510: the blocks b_idx.. of a content line
NoSpaceBefore == {" ", ".", ",", "!", "?", ":", ";", ")", "]"}
RECURSIVE RenderBlocks(_, _, _, _)
RenderBlocks(st, active, b_idx, alignment) ==
    IF b_idx > Len(active) THEN st
    ELSE
      LET text0 == active[b_idx].translated
          p == st.paras[Len(st.paras)]
          text == IF /\ p.runs # <<>>
                     /\ ~endswith(p.runs[Len(p.runs)].text, {" ", "\n"})
                     /\ ~startswith(lstrip_newline(text0), NoSpaceBefore)
                  THEN <<" ">> \o text0 ELSE text0
          written == write_run(st.paras, text, active[b_idx].formatting)
          after == IF endswith(text0, {"\n"}) /\ b_idx # Len(active)
                   THEN [paras |-> add_paragraph(written, alignment),
                         para_idx |-> st.para_idx + 1]
                   ELSE [paras |-> written, para_idx |-> st.para_idx]
      IN IF after.para_idx > 0 THEN RenderBlocks(after, active, b_idx + 1, alignment)
                               ELSE after

\* lines 1475-1476: a paragraph whose runs are all blank
is_spacer(para) == \A i \in 1..Len(para.runs) : strip(para.runs[i].text) = <<>>

\* the paragraph a line starts: the first one or a new one (1479, 1490)
StartParagraph(st, alignment) ==
    [ paras |-> IF st.para_idx = 0
                THEN [st.paras EXCEPT ![1].alignment = set_para_style(alignment)]
                ELSE add_paragraph(st.paras, alignment),
      para_idx |-> st.para_idx + 1 ]

\* lines 1469-1510: one line of a line-grouped structure
RenderLine(st, line) ==
    IF line.line_blocks = <<>>
    THEN IF is_spacer(st.paras[Len(st.paras)]) /\ st.para_idx > 0
         THEN st
         ELSE LET started == StartParagraph(st, line.alignment)
              IN [started EXCEPT !.paras =
                     add_run(@, [ text |-> <<" ">>, bold |-> FALSE,
                                  size |-> Pt(base_font_size),
                                  color |-> S_black ])]
    ELSE RenderBlocks(StartParagraph(st, line.alignment),
                      active_blocks(line.line_blocks), 1, line.alignment)

RECURSIVE RenderLines(_, _, _)
RenderLines(st, structure, i) ==
    IF i > Len(structure) THEN st
    ELSE LET after == RenderLine(st, structure[i])
         IN IF after.para_idx > 0 THEN RenderLines(after, structure, i + 1)
                                  ELSE after

\* lines 1516-1548: the flat rendering of the OCR chain's structure, one
\* paragraph per block; a text of the chain is kept whole, as one unit of
\* the run's text: it carries no outer whitespace for strip() to remove
RECURSIVE RenderFlat(_, _, _)
RenderFlat(paras, structure, i) ==
    IF i > Len(structure) THEN paras
    ELSE
      LET block == structure[i]
          para == IF i = 1
                  THEN [paras EXCEPT ![1].alignment =
                           set_para_style(block.formatting.alignment)]
                  ELSE add_paragraph(paras, block.formatting.alignment)
          run == IF block.translated = ""
                 THEN [ text |-> <<>>, bold |-> FALSE, size |-> Pt(base_font_size),
                        color |-> S_black ]
                 ELSE [ text |-> <<block.translated>>,
                        bold |-> block.formatting.bold,
                        size |-> Pt(base_font_size + block.formatting.size_relative),
                        color |-> run_color(block.formatting) ]
      IN RenderFlat(add_run(para, run), structure, i + 1)

\* the text region the call leaves on the slide
apply_formatting_from_structure(structure, ocr_mode) ==
    IF structure # <<>> /\ "line_blocks" \in DOMAIN structure[1]
    THEN RenderLines([paras |-> add_textbox, para_idx |-> 0], structure, 1).paras
    ELSE IF ocr_mode
    THEN RenderFlat(add_textbox, structure, 1)
    ELSE add_textbox

(***************************************************************************)
(* Texts a vision model may answer with                                    *)
(***************************************************************************)
\* {"lines":[{"alignment":"center","blocks":[{"text":"A","bold":true,"color":"red","size":"large"}]},{"blocks":[]}]}
LinesText ==
    <<"{", Quote, "l", "i", "n", "e", "s", Quote, ":", "[", "{", Quote, "a",
      "l", "i", "g", "n", "m", "e", "n", "t", Quote, ":", Quote, "c", "e",
      "n", "t", "e", "r", Quote, ",", Quote, "b", "l", "o", "c", "k", "s",
      Quote, ":", "[", "{", Quote, "t", "e", "x", "t", Quote, ":", Quote,
      "A", Quote, ",", Quote, "b", "o", "l", "d", Quote, ":", "t", "r", "u",
      "e", ",", Quote, "c", "o", "l", "o", "r", Quote, ":", Quote, "r", "e",
      "d", Quote, ",", Quote, "s", "i", "z", "e", Quote, ":", Quote, "l",
      "a", "r", "g", "e", Quote, "}", "]", "}", ",", "{", Quote, "b", "l",
      "o", "c", "k", "s", Quote, ":", "[", "]", "}", "]", "}">>

\* {"blocks":[{"text":"A"}]}
BlocksText ==
    <<"{", Quote, "b", "l", "o", "c", "k", "s", Quote, ":", "[", "{", Quote,
      "t", "e", "x", "t", Quote, ":", Quote, "A", Quote, "}", "]", "}">>

\* {"lines":[]}
EmptyLinesText ==
    <<"{", Quote, "l", "i", "n", "e", "s", Quote, ":", "[", "]", "}">>

\* {}
NoKeysText ==
    <<"{", "}">>

\* {"lines":[{"blocks":[{"text":"A"},
CutAfterBlockText ==
    <<"{", Quote, "l", "i", "n", "e", "s", Quote, ":", "[", "{", Quote, "b",
      "l", "o", "c", "k", "s", Quote, ":", "[", "{", Quote, "t", "e", "x",
      "t", Quote, ":", Quote, "A", Quote, "}", ",">>

\* {"lines":[{"blocks":[{"text":"A"},{"text":"B
CutInStringText ==
    <<"{", Quote, "l", "i", "n", "e", "s", Quote, ":", "[", "{", Quote, "b",
      "l", "o", "c", "k", "s", Quote, ":", "[", "{", Quote, "t", "e", "x",
      "t", Quote, ":", Quote, "A", Quote, "}", ",", "{", Quote, "t", "e",
      "x", "t", Quote, ":", Quote, "B">>

\* Sorry
NotJsonText ==
    <<"S", "o", "r", "r", "y">>

ResponseNames ==
    {"lines", "blocks", "empty_lines", "no_keys", "cut_after_block",
     "cut_in_string", "not_json"}

ResponseText(name) ==
    CASE name = "lines" -> LinesText
      [] name = "blocks" -> BlocksText
      [] name = "empty_lines" -> EmptyLinesText
      [] name = "no_keys" -> NoKeysText
      [] name = "cut_after_block" -> CutAfterBlockText
      [] name = "cut_in_string" -> CutInStringText
      [] name = "not_json" -> NotJsonText

(***************************************************************************)
(* Inputs of SpecRepair: JSON objects of up to MaxPairs top-level pairs,   *)
(* cut just after one of the pairs.                                        *)
(***************************************************************************)
MaxPairs == 2

\* the texts of the values a top-level pair may hold
TopValues == {
    <<"1">>,                                           \* 1
    <<"4", "2">>,                                      \* 42
    <<Quote, "x", Quote>>,                             \* "x"
    <<Quote, "a", "]", Quote>>,                        \* "a]"
    <<Quote, "q", Backslash, Quote, Quote>>,           \* "q\""
    <<"t", "r", "u", "e">>,
    <<"f", "a", "l", "s", "e">>,
    <<"n", "u", "l", "l">>,
    <<"[", "1", ",", "2", "]">>,                       \* [1,2]
    <<"[", Quote, "x", Quote, "]">>,                   \* ["x"]
    <<"{", Quote, "k", Quote, ":", "1", "}">>,         \* {"k":1}
    <<"[", "]">> }

KeyNames == <<"a", "b", "c", "d">>

\* "key": value   (spaced: a blank after the colon)
PairText(n, v, spaced) ==
    <<Quote, KeyNames[n], Quote, ":">> \o (IF spaced THEN <<" ">> ELSE <<>>) \o v

\* the pairs 1..n of vals, joined by commas
RECURSIVE PairsText(_, _, _)
PairsText(vals, n, spaced) ==
    IF n = 0 THEN <<>>
    ELSE IF n = 1 THEN PairText(1, vals[1], spaced)
    ELSE PairsText(vals, n - 1, spaced) \o <<",">>
         \o (IF spaced THEN <<" ">> ELSE <<>>) \o PairText(n, vals[n], spaced)

\* the whole document, and the document cut after its n-th pair
FullDoc(vals, spaced) == <<"{">> \o PairsText(vals, Len(vals), spaced) \o <<"}">>
CutDoc(vals, n, spaced, tail) == <<"{">> \o PairsText(vals, n, spaced) \o tail

RepairInputs ==
    { [vals |-> vals, n |-> n, spaced |-> spaced, tail |-> tail] :
        vals \in UNION { [1..m -> TopValues] : m \in 1..MaxPairs },
        n \in 1..MaxPairs, spaced \in BOOLEAN, tail \in {<<>>, <<",">>} }

ValidRepairInput(x) ==
    /\ x.n <= Len(x.vals)
    /\ x.tail # <<>> => x.n < Len(x.vals)

(***************************************************************************)
(* The translation job: translate_ppt starts it (ppt_translation.py        *)
(* 89-171), process_translation_background runs create_translated_ppt.     *)
(***************************************************************************)
NumSlides == 2

Providers == {"claude", "openrouter", "ocr_free"}

\* translate_ppt, lines 121-126
ModelOf(p) ==
    CASE p = "claude" -> "claude-sonnet-4-20250514"
      [] p = "openrouter" -> "google/gemma-3-12b-it:free"
      [] OTHER -> "offline"

model == ModelOf(provider)

\* a slide: selected by the user or not, and (when selected) whether
\* has_image_on_left finds a picture in its left half
\* pictures: the left-half pictures of the slide in shape order, "ok" when
\* PIL can open the picture's bytes and "corrupt" when it cannot
SlideKinds ==
    { [selected |-> FALSE, pictures |-> <<>>],
      [selected |-> TRUE, pictures |-> <<>>],
      [selected |-> TRUE, pictures |-> <<"ok">>],
      [selected |-> TRUE, pictures |-> <<"corrupt">>],
      [selected |-> TRUE, pictures |-> <<"corrupt", "ok">>] }

\* has_image_on_left, lines 1320-1330: the first picture that opens is
\* returned, a picture that does not open is passed over
has_image_on_left(slide) ==
    \E i \in 1..Len(slide.pictures) : slide.pictures[i] = "ok"

\* lines 1687-1703: add_picture reads the bytes of the first left-half
\* picture, and raises on bytes it cannot identify
add_picture_raises(slide) ==
    slide.pictures # <<>> /\ slide.pictures[1] = "corrupt"
UnidentifiedImage == "cannot identify image file"

CancelMessage == "Translation cancelled by user"

\* message.usage of one API call, lines 443-447
NoUsage == [input_tokens |-> 0, output_tokens |-> 0]
UsageReports ==
    { [input_tokens |-> 1200, output_tokens |-> 300],
      [input_tokens |-> 1500, output_tokens |-> 8192] }

\* usage: whether the dict has the key "usage"; tokens: what the key holds
NoResult ==
    [ kind |-> "None", error |-> "None", variant |-> "None", structure |-> <<>>,
      usage |-> FALSE, tokens |-> NoUsage,
      original_text |-> "", translated_text |-> "",
      translation_method |-> "None", translation_model |-> "None",
      openrouter_error |-> "None" ]

ErrorResult(msg) == [NoResult EXCEPT !.kind = "error", !.error = msg]

\* the dict of a vision call: _parse_vision_response's, with "usage" or not
VisionResult(parsed, with_usage, usage) ==
    IF parsed.some
    THEN [NoResult EXCEPT !.kind = "dict", !.variant = parsed.variant,
                          !.structure = parsed.structure, !.usage = with_usage,
                          !.tokens = IF with_usage THEN usage ELSE NoUsage]
    ELSE NoResult

NoVision ==
    [ attempt |-> 0, requests |-> 0, waits |-> <<>>, last |-> "None",
      outcome |-> "None", compact_calls |-> 0, usage |-> NoUsage ]

NoChain ==
    [ invoked |-> FALSE, api_key |-> "None", attempt |-> 0, requests |-> 0,
      waits |-> <<>>, last |-> "None", raw_text |-> "", translated_text |-> "",
      translation_method |-> "None", translation_model |-> "None",
      openrouter_error |-> "None", offline_calls |-> 0 ]

\* lines 23-24: the pool of blocking operations, and the two ways the
\* coroutines call a blocking function
executor == [max_workers |-> 4]
NoBlocking == [op |-> "None", runs_on |-> "None"]
run_in_executor(op) == [op |-> op, runs_on |-> "executor"]
called_directly(op) == [op |-> op, runs_on |-> "event_loop"]

NoCancel == [accepted |-> FALSE, after_completed |-> FALSE, k |-> 0, activity |-> FALSE]

\* line 1638
selected_slides_count == Cardinality({j \in 1..NumSlides : slides[j].selected})

\* a call progress_callback(current_step, total_steps, status, metadata)
NoCall == [current_step |-> 0, total_steps |-> 0, status |-> "None", metadata |-> <<>>]
\* a pipeline that never reports how a slide ended
callback_without_terminal_status(current_step, total_steps, status, metadata) ==
    /\ last_call' = [ current_step |-> current_step, total_steps |-> total_steps,
                      status |-> "processing", metadata |-> metadata ]
    /\ slide_status' = IF "slide_index" \in DOMAIN metadata
                       THEN [slide_status EXCEPT ![metadata.slide_index] = "processing"]
                       ELSE slide_status

progress_callback(current_step, total_steps, status, metadata) ==
    /\ last_call' = [ current_step |-> current_step, total_steps |-> total_steps,
                      status |-> status, metadata |-> metadata ]
    /\ slide_status' = IF "slide_index" \in DOMAIN metadata
                       THEN [slide_status EXCEPT ![metadata.slide_index] = status]
                       ELSE slide_status

\* no Job object loaded
NoJob == [status |-> "None", cancelled |-> FALSE]

RepairIdle ==
    /\ r_pc = "idle"
    /\ json_text = <<>>
    /\ repaired = None
    /\ parsed_ok = FALSE
    /\ parsed_doc = NoDict

FontIdle ==
    /\ f_pc = "idle"
    /\ f_frame = <<>>
    /\ iteration = 0

OcrIdle ==
    /\ o_pc = "idle"
    /\ ocr_lines = <<>>
    /\ raw_lines = <<>>
    /\ cleaned = <<>>
    /\ lines_out = <<>>
    /\ ocr_text = <<>>

RaceIdle ==
    /\ t_pc = "idle"
    /\ t_slide = 0
    /\ t_phase = 0
    /\ t_job = NoJob
    /\ c_pc = "idle"
    /\ calls_after_cancel = 0

\* the threads of the pool that run translate_offline, and the language
\* pairs of the calls
Workers == {"ThreadPoolExecutor-0_0", "ThreadPoolExecutor-0_1"}
Pairs == {"es-en", "fr-en"}

CacheIdle ==
    /\ ct2_translators = [p \in Pairs |-> 0]
    /\ instantiated = [p \in Pairs |-> 0]
    /\ w_pc = [w \in Workers |-> "idle"]
    /\ w_pair = [w \in Workers |-> "None"]
    /\ w_translator = [w \in Workers |-> 0]
    /\ w_calls = [w \in Workers |-> 0]

Init ==
    /\ provider \in Providers
    /\ api_key \in {"key", "None"}
    \* translate_ppt lines 114-118: claude and openrouter need a key
    /\ provider \in {"claude", "openrouter"} => api_key = "key"
    /\ same_lang \in BOOLEAN
    /\ slides \in [1..NumSlides -> SlideKinds]
    /\ base_font_size = default_base_font_size
    /\ pc = "start"
    /\ idx = 0
    /\ selected_slide_counter = 0
    /\ stats = [ total_slides |-> NumSlides, processed_slides |-> 0,
                 skipped_slides |-> 0, failed_slides |-> 0,
                 slide_methods |-> <<>>, warnings |-> <<>>,
                 total_input_tokens |-> 0, total_output_tokens |-> 0,
                 total_cost |-> 0 ]
    /\ new_slides = 0
    /\ text_frames = <<>>
    /\ result = NoResult
    /\ exc = "None"
    /\ last_call = NoCall
    /\ slide_status = [j \in 1..NumSlides |-> "None"]
    /\ vision = NoVision
    /\ chain = NoChain
    /\ blocking = NoBlocking
    \* translate_ppt lines 129-148: the row is created with status processing
    /\ job = [ status |-> "processing", slides_processed |-> 0, total_slides |-> 0,
               error_message |-> "None", cancelled |-> FALSE ]
    /\ cancel = NoCancel
    /\ RepairIdle
    /\ FontIdle
    /\ OcrIdle
    /\ RaceIdle
    /\ CacheIdle

(***************************************************************************)
(* update_progress (ppt_translation.py 252-280)                            *)
(***************************************************************************)
\* lines 262-267: the callback raises when the row carries the flag
update_progress_raises == job.cancelled

\* lines 269-280: the row it commits otherwise
update_progress(current, status) ==
    [job EXCEPT
        !.slides_processed = current,
        !.status = IF status \in {"processing", "completed", "failed"}
                   THEN (IF status # "failed" THEN "processing" ELSE "failed")
                   ELSE @]

(***************************************************************************)
(* cancel_translation (ppt_translation.py 567-598)                         *)
(***************************************************************************)
\* the selected slide visited last has reported "completed"
LastSelected ==
    IF \E j \in 1..idx : slides[j].selected
    THEN CHOOSE j \in 1..idx : slides[j].selected /\ \A i \in (j + 1)..idx : ~slides[i].selected
    ELSE 0

AfterCompletedSlide ==
    /\ pc = "loop"
    /\ stats.slide_methods # <<>>
    /\ LET last == stats.slide_methods[Len(stats.slide_methods)]
       IN last.slide = LastSelected /\ last.method # "unknown"

\* lines 579-598: the request is accepted
CancelAccepted ==
    /\ pc # "done"
    /\ job.status \in {"pending", "processing"}
    /\ job' = [job EXCEPT !.status = "failed",
                          !.error_message = "Cancelled by user",
                          !.cancelled = TRUE]
    /\ cancel' = [ accepted |-> TRUE, after_completed |-> AfterCompletedSlide,
                   k |-> selected_slide_counter, activity |-> FALSE ]
    /\ UNCHANGED <<requestVars, pipelineVars, callVars, auxVars>>

\* lines 579-580: HTTP 400, nothing is written
CancelRejected ==
    /\ pc # "done"
    /\ job.status \notin {"pending", "processing"}
    /\ UNCHANGED vars

\* a provider call, a render or a terminal slide status after an accepted
\* cancel is noted in cancel.activity
Activity == IF cancel.accepted THEN [cancel EXCEPT !.activity = TRUE] ELSE cancel

(***************************************************************************)
(* process_translation_background (ppt_translation.py 180-357)             *)
(***************************************************************************)
\* lines 205-239
BgStart ==
    /\ pc = "start"
    /\ job' = [job EXCEPT
                  !.status = "detecting",
                  !.slides_processed = 0,
                  !.total_slides =
                      3 * Cardinality({j \in 1..NumSlides :
                                          /\ slides[j].selected
                                          /\ has_image_on_left(slides[j])})]
    /\ pc' = "loop"
    /\ UNCHANGED <<requestVars, idx, selected_slide_counter, stats, new_slides,
                   text_frames, result, exc, callVars, cancel, callbackVars, auxVars>>

\* lines 296-334: create_translated_ppt returned
Finalize ==
    /\ pc = "returned"
    /\ job' = [job EXCEPT
                  !.status = "completed",
                  !.slides_processed = stats.processed_slides,
                  !.total_slides = stats.total_slides]
    /\ pc' = "done"
    /\ UNCHANGED <<requestVars, idx, selected_slide_counter, stats, new_slides,
                   text_frames, result, exc, callVars, cancel, callbackVars, auxVars>>

\* line 338
is_cancellation(msg) == msg = CancelMessage

\* lines 336-354: create_translated_ppt raised
HandleException ==
    /\ pc = "raised"
    /\ job' = [job EXCEPT
                  !.status = "failed",
                  !.error_message =
                      IF is_cancellation(exc) THEN "Cancelled by user" ELSE exc]
    /\ pc' = "done"
    /\ UNCHANGED <<requestVars, idx, selected_slide_counter, stats, new_slides,
                   text_frames, result, exc, callVars, cancel, callbackVars, auxVars>>

(***************************************************************************)
(* create_translated_ppt (ppt_service.py 1605-1849)                        *)
(***************************************************************************)
\* a failure record that leaves the warning out
RecordFailureWithoutWarning(error_msg) ==
    [stats EXCEPT
        !.failed_slides = @ + 1,
        !.slide_methods = Append(@, [ slide |-> idx, method |-> "unknown",
                                      model |-> "None", error |-> error_msg ])]

\* lines 1806-1815 and 1824-1836: the record of one failed slide
RecordFailure(error_msg) ==
    [stats EXCEPT
        !.failed_slides = @ + 1,
        !.warnings = Append(@, [slide |-> idx, error |-> error_msg]),
        !.slide_methods = Append(@, [ slide |-> idx, method |-> "unknown",
                                      model |-> "None", error |-> error_msg ])]

\* an except handler that tells no cancellation apart
never_cancelled_by_user(msg) == FALSE

\* line 1821: "cancelled by user" in str(e).lower()
cancelled_by_user(msg) == msg = CancelMessage

\* lines 1819-1836: `except Exception as e` around one slide's translation
SlideExcept(msg) ==
    IF cancelled_by_user(msg)
    THEN /\ pc' = "raised"
         /\ exc' = msg
         /\ stats' = stats
    ELSE /\ pc' = "cb_failed_except"
         /\ exc' = msg
         /\ stats' = RecordFailure(msg)

\* the next iteration of the loop at line 1662
NextSlide ==
    /\ pc' = "loop"
    /\ result' = NoResult
    /\ exc' = "None"
    /\ vision' = NoVision
    /\ blocking' = NoBlocking
    /\ chain' = NoChain

\* a loop that passes over an unselected slide without counting it
SkipUnselectedUncounted ==
    /\ pc = "loop"
    /\ idx < NumSlides
    /\ ~slides[idx + 1].selected
    /\ idx' = idx + 1
    /\ UNCHANGED <<requestVars, pc, selected_slide_counter, stats, new_slides,
                   text_frames, result, exc, callVars, jobVars, callbackVars, auxVars>>

\* lines 1662-1666
SkipUnselected ==
    /\ pc = "loop"
    /\ idx < NumSlides
    /\ ~slides[idx + 1].selected
    /\ idx' = idx + 1
    /\ stats' = [stats EXCEPT !.skipped_slides = @ + 1]
    /\ UNCHANGED <<requestVars, pc, selected_slide_counter, new_slides,
                   text_frames, result, exc, callVars, jobVars, callbackVars, auxVars>>

\* lines 1662-1669
SelectSlide ==
    /\ pc = "loop"
    /\ idx < NumSlides
    /\ slides[idx + 1].selected
    /\ idx' = idx + 1
    /\ selected_slide_counter' = selected_slide_counter + 1
    /\ pc' = "cb_processing"
    /\ UNCHANGED <<requestVars, stats, new_slides, text_frames, result, exc, callVars,
                   jobVars, callbackVars, auxVars>>

\* lines 1840-1849: the loop is over, the deck is saved and returned
LoopEnd ==
    /\ pc = "loop"
    /\ idx = NumSlides
    /\ pc' = "returned"
    /\ UNCHANGED <<requestVars, idx, selected_slide_counter, stats, new_slides,
                   text_frames, result, exc, callVars, jobVars, callbackVars, auxVars>>

\* lines 1671-1703: the "processing" callback, the image test, the new slide
CbProcessing ==
    /\ pc = "cb_processing"
    /\ progress_callback(selected_slide_counter, selected_slides_count, "processing",
                         [slide_index |-> idx])
    /\ IF update_progress_raises
       THEN /\ pc' = "raised"
            /\ exc' = CancelMessage
            /\ UNCHANGED <<job, stats, new_slides, text_frames>>
       ELSE /\ job' = update_progress(selected_slide_counter, "processing")
            /\ IF ~has_image_on_left(slides[idx])
               THEN /\ stats' = [stats EXCEPT !.skipped_slides = @ + 1]
                    /\ pc' = "cb_skipped"
                    /\ exc' = exc
                    /\ new_slides' = new_slides
                    /\ text_frames' = text_frames
               ELSE /\ new_slides' = new_slides + 1
                    /\ text_frames' = Append(text_frames,
                                            [slide |-> idx, text_frame |-> NoTextbox])
                    /\ stats' = stats
                    \* the copy of the picture is outside the try of line 1706
                    /\ IF add_picture_raises(slides[idx])
                       THEN /\ pc' = "raised"
                            /\ exc' = UnidentifiedImage
                       ELSE /\ pc' = "cb_ocr"
                            /\ exc' = exc
    /\ UNCHANGED <<requestVars, idx, selected_slide_counter, result, callVars,
                   cancel, auxVars>>

\* lines 1677-1679
CbSkipped ==
    /\ pc = "cb_skipped"
    /\ progress_callback(selected_slide_counter, selected_slides_count, "skipped",
                         [slide_index |-> idx])
    /\ IF update_progress_raises
       THEN /\ pc' = "raised"
            /\ exc' = CancelMessage
            /\ UNCHANGED <<job, result, callVars, cancel>>
       ELSE /\ job' = update_progress(selected_slide_counter, "skipped")
            /\ cancel' = Activity
            /\ NextSlide
    /\ UNCHANGED <<requestVars, idx, selected_slide_counter, stats, new_slides,
                   text_frames, auxVars>>

\* lines 1706-1709: the first await inside the slide's try block
CbOcr ==
    /\ pc = "cb_ocr"
    /\ progress_callback(selected_slide_counter, selected_slides_count, "processing",
                         [phase |-> "ocr", slide_index |-> idx,
                          slide_total |-> selected_slides_count])
    /\ IF update_progress_raises
       THEN /\ SlideExcept(CancelMessage)
            /\ UNCHANGED job
       ELSE /\ job' = update_progress(selected_slide_counter, "processing")
            /\ pc' = "process_ppt_slide"
            /\ UNCHANGED <<stats, exc>>
    /\ UNCHANGED <<requestVars, idx, selected_slide_counter, new_slides,
                   text_frames, result, callVars, cancel, auxVars>>

\* process_ppt_slide, lines 1567-1592: the log header, then the provider
ProcessPptSlide ==
    /\ pc = "process_ppt_slide"
    /\ \/ /\ SlideExcept("log file cannot be written")
          /\ UNCHANGED chain
       \/ /\ pc' = CASE provider = "claude" -> "call_claude_vision"
                     [] provider = "openrouter" -> "call_openrouter_vision"
                     [] OTHER -> "ocr_extract_text"
          /\ chain' = IF provider = "ocr_free"
                      THEN [NoChain EXCEPT !.invoked = TRUE, !.api_key = api_key]
                      ELSE chain
          /\ UNCHANGED <<stats, exc>>
    /\ UNCHANGED <<requestVars, idx, selected_slide_counter, new_slides,
                   text_frames, result, vision, blocking, jobVars, callbackVars,
                   auxVars>>

\* lines 1718 and 1800-1815: the test of the result, the failure record
AfterProvider ==
    /\ pc = "after_provider"
    /\ IF result.kind = "dict" /\ result.structure # <<>>
       THEN /\ pc' = "cb_render"
            /\ stats' = stats
       ELSE /\ stats' = RecordFailure(IF result.kind = "error"
                                      THEN result.error
                                      ELSE "No result from API (unknown error)")
            /\ pc' = "cb_failed"
    /\ UNCHANGED <<requestVars, idx, selected_slide_counter, new_slides,
                   text_frames, result, exc, callVars, jobVars, callbackVars, auxVars>>

\* lines 1757-1767: the cost of a slide in millionths of a dollar, the
\* prices being dollars per million tokens
slide_cost(usage) ==
    IF model = "claude-3-haiku-20240307"
    THEN usage.input_tokens * 1 + usage.output_tokens * 5
    ELSE usage.input_tokens * 3 + usage.output_tokens * 15

\* lines 1771-1789
slide_info ==
    CASE provider = "ocr_free" ->
            [ slide |-> idx, method |-> result.translation_method,
              model |-> result.translation_model,
              error |-> result.openrouter_error ]
      [] provider = "claude" ->
            [ slide |-> idx, method |-> "claude_vision", model |-> model,
              error |-> "None" ]
      [] provider = "openrouter-vision" ->
            [ slide |-> idx, method |-> "openrouter_vision", model |-> model,
              error |-> "None" ]
      [] OTHER ->
            [ slide |-> idx, method |-> "None", model |-> "None", error |-> "None" ]

\* lines 1736-1789: the "render" callback, the rendering, the slide's record
CbRender ==
    /\ pc = "cb_render"
    /\ progress_callback(selected_slide_counter, selected_slides_count, "processing",
                         [phase |-> "render", slide_index |-> idx,
                          slide_total |-> selected_slides_count])
    /\ IF update_progress_raises
       THEN /\ SlideExcept(CancelMessage)
            /\ UNCHANGED <<job, cancel, text_frames>>
       ELSE /\ job' = update_progress(selected_slide_counter, "processing")
            /\ cancel' = Activity
            /\ \/ /\ SlideExcept("rendering failed")
                  /\ text_frames' = [text_frames EXCEPT
                                        ![new_slides].text_frame = add_textbox]
               \/ /\ text_frames' =
                        [text_frames EXCEPT ![new_slides].text_frame =
                            apply_formatting_from_structure(
                                result.structure, provider = "ocr_free")]
                  /\ stats' = [stats EXCEPT
                                  !.processed_slides = @ + 1,
                                  !.total_input_tokens = @ + result.tokens.input_tokens,
                                  !.total_output_tokens = @ + result.tokens.output_tokens,
                                  !.total_cost = @ + IF result.usage /\ provider = "claude"
                                                     THEN slide_cost(result.tokens)
                                                     ELSE 0,
                                  !.slide_methods = Append(@, slide_info)]
                  /\ pc' = IF provider = "ocr_free" THEN "cb_slide_method"
                                                    ELSE "cb_completed"
                  /\ exc' = exc
    /\ UNCHANGED <<requestVars, idx, selected_slide_counter, new_slides, result,
                   callVars, auxVars>>

\* lines 1792-1796: progress_callback(idx + 1, stats["total_slides"], ...)
CbSlideMethod ==
    /\ pc = "cb_slide_method"
    /\ progress_callback(idx, stats.total_slides, "processing",
                         [phase |-> "slide_method",
                          slide_methods |-> stats.slide_methods])
    /\ IF update_progress_raises
       THEN /\ SlideExcept(CancelMessage)
            /\ UNCHANGED job
       ELSE /\ job' = update_progress(idx, "processing")
            /\ pc' = "cb_completed"
            /\ UNCHANGED <<stats, exc>>
    /\ UNCHANGED <<requestVars, idx, selected_slide_counter, new_slides,
                   text_frames, result, callVars, cancel, auxVars>>

\* lines 1798-1799
CbCompleted ==
    /\ pc = "cb_completed"
    /\ progress_callback(selected_slide_counter, selected_slides_count, "completed",
                         [slide_index |-> idx])
    /\ IF update_progress_raises
       THEN /\ SlideExcept(CancelMessage)
            /\ UNCHANGED <<job, result, callVars, cancel>>
       ELSE /\ job' = update_progress(selected_slide_counter, "completed")
            /\ cancel' = Activity
            /\ NextSlide
            /\ stats' = stats
    /\ UNCHANGED <<requestVars, idx, selected_slide_counter, new_slides,
                   text_frames, auxVars>>

\* lines 1816-1817
CbFailed ==
    /\ pc = "cb_failed"
    /\ progress_callback(selected_slide_counter, selected_slides_count, "failed",
                         [slide_index |-> idx,
                          error |-> stats.slide_methods[Len(stats.slide_methods)].error])
    /\ IF update_progress_raises
       THEN /\ SlideExcept(CancelMessage)
            /\ UNCHANGED <<job, result, callVars, cancel>>
       ELSE /\ job' = update_progress(selected_slide_counter, "failed")
            /\ cancel' = Activity
            /\ NextSlide
            /\ stats' = stats
    /\ UNCHANGED <<requestVars, idx, selected_slide_counter, new_slides,
                   text_frames, auxVars>>

\* lines 1837-1838: the callback of the except handler, outside the try
CbFailedExcept ==
    /\ pc = "cb_failed_except"
    /\ progress_callback(selected_slide_counter, selected_slides_count, "failed",
                         [slide_index |-> idx,
                          error |-> stats.slide_methods[Len(stats.slide_methods)].error])
    /\ IF update_progress_raises
       THEN /\ pc' = "raised"
            /\ exc' = CancelMessage
            /\ UNCHANGED <<job, result, callVars, cancel>>
       ELSE /\ job' = update_progress(selected_slide_counter, "failed")
            /\ cancel' = Activity
            /\ NextSlide
    /\ UNCHANGED <<requestVars, idx, selected_slide_counter, stats, new_slides,
                   text_frames, auxVars>>

(***************************************************************************)
(* The provider calls of process_ppt_slide                                 *)
(***************************************************************************)
\* ppt_service.py 557-558 and 1221-1222
max_retries == 3
backoff == 2

\* what one HTTP request to OpenRouter meets
HttpOutcomes == {"200", "429", "500", "timeout", "connection_error"}

\* lines 570 and 1236
RetriesAfter(http, attempt) == http = "429" /\ attempt < max_retries

\* a backoff of backoff ** attempt
wait_from_one(attempt) == backoff ^ attempt

\* lines 571 and 1237
wait_s(attempt) == backoff ^ (attempt + 1)

\* the names bound where line 481 runs: the parameters of call_claude_vision
\* (406-409), its locals (413-470) and the module's globals
call_claude_vision_names ==
    { "image", "prompt", "api_key", "model", "image_base64", "client",
      "make_call", "message", "response_text", "usage", "json_text", "e",
      "repaired", "_create_compact_vision_prompt", "executor", "asyncio",
      "json", "anthropic" }

NameError(names) == ~(names \subseteq call_claude_vision_names)

\* call_claude_vision, lines 412-477 and 511-529: the first call and what
\* is made of its answer
call_claude_vision ==
    /\ pc = "call_claude_vision"
    /\ cancel' = Activity
    /\ blocking' = run_in_executor("client.messages.create")
    /\ \/ /\ result' = ErrorResult("Claude API error")
          /\ vision' = [vision EXCEPT !.requests = 1, !.outcome = "api_error"]
          /\ pc' = "after_provider"
       \/ \E name \in ResponseNames, usage \in UsageReports :
            LET text == strip(ResponseText(name))
                direct == json_loads(text)
                rep == repair_truncated_json(text)
                again == IF rep.some THEN json_loads(rep.text) ELSE json_loads(<<>>)
                v == [vision EXCEPT !.requests = 1, !.usage = usage]
            IN  IF direct.ok
                THEN /\ result' = VisionResult(parse_vision_response(direct.val),
                                               TRUE, usage)
                     /\ vision' = [v EXCEPT !.outcome = "parsed"]
                     /\ pc' = "after_provider"
                ELSE IF rep.some /\ again.ok
                THEN /\ result' = VisionResult(parse_vision_response(again.val),
                                               FALSE, usage)
                     /\ vision' = [v EXCEPT !.outcome = "repaired"]
                     /\ pc' = "after_provider"
                ELSE /\ result' = result
                     /\ vision' = [v EXCEPT !.outcome = "unparseable"]
                     /\ pc' = "compact_retry"
    /\ UNCHANGED <<requestVars, idx, selected_slide_counter, stats, new_slides,
                   text_frames, exc, chain, job, callbackVars, auxVars>>

\* call_claude_vision, lines 478-509: the retry with the compact prompt
compact_retry ==
    /\ pc = "compact_retry"
    /\ cancel' = Activity
    /\ IF NameError({"source_lang", "target_lang"})
       THEN /\ result' = NoResult
            /\ vision' = vision
            /\ blocking' = blocking
       ELSE /\ blocking' = run_in_executor("client.messages.create")
            /\ vision' = [vision EXCEPT !.requests = @ + 1, !.compact_calls = @ + 1]
            /\ \E name \in ResponseNames \cup {"api_error"} :
                 LET retry == IF name = "api_error" THEN json_loads(<<>>)
                              ELSE json_loads(strip(ResponseText(name)))
                 IN  result' = IF retry.ok
                               THEN VisionResult(parse_vision_response(retry.val),
                                                 FALSE, NoUsage)
                               ELSE NoResult
    /\ pc' = "after_provider"
    /\ UNCHANGED <<requestVars, idx, selected_slide_counter, stats, new_slides,
                   text_frames, exc, chain, job, callbackVars, auxVars>>

\* process_ppt_slide line 1583
FallsBackToOcr(res) == res.kind = "None"

\* process_ppt_slide lines 1582-1586 on what call_openrouter_vision returned
AfterOpenRouterVision(res) ==
    /\ result' = res
    /\ IF FallsBackToOcr(res)
       THEN /\ chain' = [NoChain EXCEPT !.invoked = TRUE, !.api_key = "None"]
            /\ pc' = "ocr_extract_text"
       ELSE /\ chain' = chain
            /\ pc' = "after_provider"

\* call_openrouter_vision, lines 560-619: one request of the retry loop
call_openrouter_vision ==
    /\ pc = "call_openrouter_vision"
    /\ cancel' = Activity
    /\ blocking' = run_in_executor("requests.post")
    /\ \E http \in HttpOutcomes :
        LET v == [vision EXCEPT !.requests = @ + 1, !.last = http] IN
        IF RetriesAfter(http, vision.attempt)
        THEN /\ vision' = [v EXCEPT !.waits = Append(@, wait_s(vision.attempt)),
                                    !.attempt = @ + 1]
             /\ UNCHANGED <<pc, result, chain>>
        ELSE IF http = "timeout"
        THEN /\ vision' = [v EXCEPT !.outcome = "error"]
             /\ AfterOpenRouterVision(ErrorResult("API timeout"))
        ELSE IF http = "connection_error"
        THEN /\ vision' = [v EXCEPT !.outcome = "error"]
             /\ AfterOpenRouterVision(ErrorResult("Connection error"))
        ELSE IF http # "200"
        THEN /\ vision' = [v EXCEPT !.outcome = "error"]
             /\ AfterOpenRouterVision(ErrorResult("Translation error: HTTP " \o http))
        ELSE \E name \in ResponseNames :
               LET direct == json_loads(strip(ResponseText(name))) IN
               IF direct.ok
               THEN /\ vision' = [v EXCEPT !.outcome = "parsed"]
                    /\ AfterOpenRouterVision(
                           VisionResult(parse_vision_response(direct.val), TRUE,
                                        NoUsage))
               ELSE /\ vision' = [v EXCEPT !.outcome = "unparseable"]
                    /\ AfterOpenRouterVision(
                           ErrorResult("Translation error: JSONDecodeError"))
    /\ UNCHANGED <<requestVars, idx, selected_slide_counter, stats, new_slides,
                   text_frames, exc, job, callbackVars, auxVars>>

(***************************************************************************)
(* call_ocr_openrouter (ppt_service.py 1132-1307)                          *)
(***************************************************************************)
OcrText == "text read by OCR"
LlmText == "translation by the LLM"
MtText == "translation by the offline model"

\* post_process_translation (1021-1129) rewrites the model's answer
post_process_translation(t) == IF t = "" THEN "" ELSE "post_processed(" \o t \o ")"

\* build_text_structure (985-1017) on a text of one line: one paragraph of
\* plain black text
build_text_structure(t) ==
    << [ type |-> "paragraph", original |-> t, translated |-> t,
         formatting |-> [ bold |-> FALSE, size_relative |-> 0,
                          color |-> S_black, alignment |-> S_left ],
         has_emoji |-> FALSE ] >>

\* lines 1292-1307: the blank guard and the returned dict
ChainReturn(ch) ==
    /\ chain' = ch
    /\ pc' = "after_provider"
    /\ result' = IF ch.translated_text = ""
                 THEN NoResult
                 ELSE [NoResult EXCEPT
                          !.kind = "dict",
                          !.variant = "blocks",
                          !.structure = build_text_structure(ch.translated_text),
                          !.original_text = ch.raw_text,
                          !.translated_text = ch.translated_text,
                          !.translation_method = ch.translation_method,
                          !.translation_model = ch.translation_model,
                          !.openrouter_error = ch.openrouter_error]

\* lines 1270-1279: no translation yet
Step2b(ch) ==
    IF ch.translated_text # ""
    THEN ChainReturn(ch)
    ELSE IF same_lang
    THEN ChainReturn([ch EXCEPT !.translated_text = ch.raw_text,
                                !.translation_method = "passthrough",
                                !.translation_model = "passthrough"])
    ELSE /\ chain' = ch
         /\ pc' = "translate_offline"
         /\ result' = result

\* lines 1153-1173 and 1267-1268: the local OCR, then the test of the key
ocr_extract_text ==
    /\ pc = "ocr_extract_text"
    /\ cancel' = Activity
    /\ blocking' = called_directly("ocr_extract_text")
    /\ \E raw \in {"", OcrText} :
        IF raw = ""
        THEN /\ result' = NoResult
             /\ chain' = chain
             /\ pc' = "after_provider"
        ELSE IF chain.api_key # "None"
        THEN /\ chain' = [chain EXCEPT !.raw_text = raw]
             /\ pc' = "text_llm"
             /\ result' = result
        ELSE Step2b([chain EXCEPT !.raw_text = raw,
                                  !.openrouter_error = "No API key configured"])
    /\ UNCHANGED <<requestVars, idx, selected_slide_counter, stats, new_slides,
                   text_frames, exc, vision, job, callbackVars, auxVars>>

\* lines 1225-1266: one request of the text LLM's retry loop
text_llm ==
    /\ pc = "text_llm"
    /\ cancel' = Activity
    /\ blocking' = run_in_executor("requests.post")
    /\ \E http \in HttpOutcomes :
        LET ch == [chain EXCEPT !.requests = @ + 1, !.last = http] IN
        IF RetriesAfter(http, chain.attempt)
        THEN /\ chain' = [ch EXCEPT !.waits = Append(@, wait_s(chain.attempt)),
                                    !.attempt = @ + 1]
             /\ UNCHANGED <<pc, result>>
        ELSE IF http # "200"
        THEN Step2b([ch EXCEPT !.openrouter_error = "request failed: " \o http])
        ELSE \E content \in {"", LlmText} :
               IF content # ""
               THEN Step2b([ch EXCEPT
                               !.translated_text = post_process_translation(content),
                               !.translation_method = "openrouter",
                               !.translation_model = model])
               ELSE Step2b([ch EXCEPT
                               !.openrouter_error = "Empty response from model"])
    /\ UNCHANGED <<requestVars, idx, selected_slide_counter, stats, new_slides,
                   text_frames, exc, vision, job, callbackVars, auxVars>>

\* lines 1280-1290 with translate_offline (947-982), which returns None
\* when the model cannot be loaded or fails
translate_offline ==
    /\ pc = "translate_offline"
    /\ cancel' = Activity
    /\ blocking' = run_in_executor("translate_offline")
    /\ \E out \in {"", MtText} :
        IF out = ""
        THEN /\ result' = NoResult
             /\ chain' = [chain EXCEPT !.offline_calls = @ + 1]
             /\ pc' = "after_provider"
        ELSE ChainReturn([chain EXCEPT
                             !.offline_calls = @ + 1,
                             !.translated_text = out,
                             !.translation_method = "offline",
                             !.translation_model = "Helsinki-NLP/opus-mt"])
    /\ UNCHANGED <<requestVars, idx, selected_slide_counter, stats, new_slides,
                   text_frames, exc, vision, job, callbackVars, auxVars>>

Next ==
    \/ BgStart
    \/ SkipUnselected
    \/ SelectSlide
    \/ LoopEnd
    \/ CbProcessing
    \/ CbSkipped
    \/ CbOcr
    \/ ProcessPptSlide
    \/ call_claude_vision
    \/ compact_retry
    \/ call_openrouter_vision
    \/ ocr_extract_text
    \/ text_llm
    \/ translate_offline
    \/ AfterProvider
    \/ CbRender
    \/ CbSlideMethod
    \/ CbCompleted
    \/ CbFailed
    \/ CbFailedExcept
    \/ Finalize
    \/ HandleException
    \/ CancelAccepted
    \/ CancelRejected

Spec == Init /\ [][Next]_vars

(***************************************************************************)
(* _repair_truncated_json on its own: a truncated text is repaired, the    *)
(* repaired text is loaded.                                                *)
(***************************************************************************)
\* no job runs
TaskIdle ==
    /\ api_key = "key"
    /\ same_lang = FALSE
    /\ slides = [j \in 1..NumSlides |-> [selected |-> FALSE, pictures |-> <<>>]]
    /\ pc = "idle"
    /\ idx = 0
    /\ selected_slide_counter = 0
    /\ stats = [ total_slides |-> NumSlides, processed_slides |-> 0,
                 skipped_slides |-> 0, failed_slides |-> 0,
                 slide_methods |-> <<>>, warnings |-> <<>>,
                 total_input_tokens |-> 0, total_output_tokens |-> 0,
                 total_cost |-> 0 ]
    /\ new_slides = 0
    /\ text_frames = <<>>
    /\ result = NoResult
    /\ exc = "None"
    /\ last_call = NoCall
    /\ slide_status = [j \in 1..NumSlides |-> "None"]
    /\ vision = NoVision
    /\ chain = NoChain
    /\ blocking = NoBlocking
    /\ job = [ status |-> "processing", slides_processed |-> 0, total_slides |-> 0,
               error_message |-> "None", cancelled |-> FALSE ]
    /\ cancel = NoCancel

PipelineIdle ==
    /\ provider = "claude"
    /\ TaskIdle

InitRepair ==
    /\ r_pc = "input"
    /\ \E x \in RepairInputs :
        /\ ValidRepairInput(x)
        /\ json_text = CutDoc(x.vals, x.n, x.spaced, x.tail)
    /\ repaired = None
    /\ parsed_ok = FALSE
    /\ parsed_doc = NoDict
    /\ base_font_size = default_base_font_size
    /\ PipelineIdle
    /\ FontIdle
    /\ OcrIdle
    /\ RaceIdle
    /\ CacheIdle

\* repaired = _repair_truncated_json(json_text)
Repair ==
    /\ r_pc = "input"
    /\ repaired' = repair_truncated_json(json_text)
    /\ r_pc' = "repaired"
    /\ UNCHANGED <<json_text, parsed_ok, parsed_doc, requestVars, pipelineVars,
                   callVars, jobVars, fontVars, ocrVars,
                   raceVars, cacheVars>>

\* call_claude_vision lines 471-475: json.loads(repaired), then
\* _parse_vision_response of what it loaded
LoadRepaired ==
    /\ r_pc = "repaired"
    /\ LET loaded == IF repaired.some THEN json_loads(repaired.text)
                                      ELSE json_loads(<<>>)
       IN /\ parsed_ok' = loaded.ok
          /\ parsed_doc' = IF loaded.ok THEN parse_vision_response(loaded.val)
                                        ELSE NoDict
    /\ r_pc' = "parsed"
    /\ UNCHANGED <<json_text, repaired, requestVars, pipelineVars, callVars, jobVars,
                   fontVars, ocrVars,
                   raceVars, cacheVars>>

NextRepair == Repair \/ LoadRepaired

SpecRepair == InitRepair /\ [][NextRepair]_vars

(***************************************************************************)
(* A "lines" answer cut inside the third block of its last line            *)
(***************************************************************************)
\* {"lines":[{"blocks":[{"text":"A"},{"text":"B"},
OneLinePrefix ==
    <<"{", Quote, "l", "i", "n", "e", "s", Quote, ":", "[", "{", Quote,
      "b", "l", "o", "c", "k", "s", Quote, ":", "[", "{", Quote, "t", "e",
      "x", "t", Quote, ":", Quote, "A", Quote, "}", ",", "{", Quote, "t",
      "e", "x", "t", Quote, ":", Quote, "B", Quote, "}", ",">>

\* {"lines":[{"blocks":[]},{"alignment":"center","blocks":[{"text":"A"},{"text":"B"},
TwoLinePrefix ==
    <<"{", Quote, "l", "i", "n", "e", "s", Quote, ":", "[", "{", Quote,
      "b", "l", "o", "c", "k", "s", Quote, ":", "[", "]", "}", ",", "{",
      Quote, "a", "l", "i", "g", "n", "m", "e", "n", "t", Quote, ":", Quote,
      "c", "e", "n", "t", "e", "r", Quote, ",", Quote, "b", "l", "o", "c",
      "k", "s", Quote, ":", "[", "{", Quote, "t", "e", "x", "t", Quote, ":",
      Quote, "A", Quote, "}", ",", "{", Quote, "t", "e", "x", "t", Quote,
      ":", Quote, "B", Quote, "}", ",">>

\* {"text":"C"}
BlockC ==
    <<"{", Quote, "t", "e", "x", "t", Quote, ":", Quote, "C", Quote, "}">>

\* {"text":"C","bold":true}
BlockCBold ==
    <<"{", Quote, "t", "e", "x", "t", Quote, ":", Quote, "C", Quote, ",",
      Quote, "b", "o", "l", "d", Quote, ":", "t", "r", "u", "e", "}">>

\* {"text":"Cd","size":"small"}
BlockCSize ==
    <<"{", Quote, "t", "e", "x", "t", Quote, ":", Quote, "C", "d", Quote,
      ",", Quote, "s", "i", "z", "e", Quote, ":", Quote, "s", "m", "a", "l",
      "l", Quote, "}">>

\* {"color":"red","text":"C d"}
BlockCColor ==
    <<"{", Quote, "c", "o", "l", "o", "r", Quote, ":", Quote, "r", "e",
      "d", Quote, ",", Quote, "t", "e", "x", "t", Quote, ":", Quote, "C",
      " ", "d", Quote, "}">>

LinePrefixes == {OneLinePrefix, TwoLinePrefix}
ThirdBlocks == {BlockC, BlockCBold, BlockCSize, BlockCColor}

\* the answer is cut after 1 .. Len - 1 characters of its third block
InitTruncated ==
    /\ r_pc = "input"
    /\ \E prefix \in LinePrefixes, block \in ThirdBlocks :
         \E cut \in 1..(Len(block) - 1) :
            json_text = prefix \o SubSeq(block, 1, cut)
    /\ repaired = None
    /\ parsed_ok = FALSE
    /\ parsed_doc = NoDict
    /\ base_font_size = default_base_font_size
    /\ PipelineIdle
    /\ FontIdle
    /\ OcrIdle
    /\ RaceIdle
    /\ CacheIdle

SpecTruncated == InitTruncated /\ [][NextRepair]_vars

(***************************************************************************)
(* _parse_vision_response on answers in the "lines" schema                 *)
(***************************************************************************)
\* {"blocks":[]}
LineEmpty ==
    <<"{", Quote, "b", "l", "o", "c", "k", "s", Quote, ":", "[", "]", "}">>
\* {"alignment":"center"}
LineNoBlocks ==
    <<"{", Quote, "a", "l", "i", "g", "n", "m", "e", "n", "t", Quote,
      ":", Quote, "c", "e", "n", "t", "e", "r", Quote, "}">>
\* {"blocks":[{"text":"a"}]}
LineOne ==
    <<"{", Quote, "b", "l", "o", "c", "k", "s", Quote, ":", "[", "{",
      Quote, "t", "e", "x", "t", Quote, ":", Quote, "a", Quote, "}", "]",
      "}">>
\* {"blocks":[{"text":"b","bold":true},{"text":"c","size":"large"}],"alignment":"center"}
LineTwo ==
    <<"{", Quote, "b", "l", "o", "c", "k", "s", Quote, ":", "[", "{",
      Quote, "t", "e", "x", "t", Quote, ":", Quote, "b", Quote, ",",
      Quote, "b", "o", "l", "d", Quote, ":", "t", "r", "u", "e", "}",
      ",", "{", Quote, "t", "e", "x", "t", Quote, ":", Quote, "c", Quote,
      ",", Quote, "s", "i", "z", "e", Quote, ":", Quote, "l", "a", "r",
      "g", "e", Quote, "}", "]", ",", Quote, "a", "l", "i", "g", "n",
      "m", "e", "n", "t", Quote, ":", Quote, "c", "e", "n", "t", "e",
      "r", Quote, "}">>
\* {"blocks":[{"text":"a"},{"text":"a"}]}
LineTwice ==
    <<"{", Quote, "b", "l", "o", "c", "k", "s", Quote, ":", "[", "{",
      Quote, "t", "e", "x", "t", Quote, ":", Quote, "a", Quote, "}", ",",
      "{", Quote, "t", "e", "x", "t", Quote, ":", Quote, "a", Quote, "}",
      "]", "}">>

LineTexts == {LineEmpty, LineNoBlocks, LineOne, LineTwo, LineTwice}
MaxLines == 3

\* the texts of ls joined by commas
RECURSIVE JoinLines(_)
JoinLines(ls) ==
    IF ls = <<>> THEN <<>>
    ELSE IF Len(ls) = 1 THEN ls[1]
    ELSE ls[1] \o <<",">> \o JoinLines(Tail(ls))

LinesOpen ==
    <<"{", Quote, "l", "i", "n", "e", "s", Quote, ":", "[">>

\* a complete answer with the lines ls
LinesDoc(ls) == LinesOpen \o JoinLines(ls) \o <<"]", "}">>

InitLines ==
    /\ r_pc = "response"
    /\ \E n \in 0..MaxLines : \E ls \in [1..n -> LineTexts] : json_text = LinesDoc(ls)
    /\ repaired = None
    /\ parsed_ok = FALSE
    /\ parsed_doc = NoDict
    /\ base_font_size = default_base_font_size
    /\ PipelineIdle
    /\ FontIdle
    /\ OcrIdle
    /\ RaceIdle
    /\ CacheIdle

\* call_claude_vision lines 450-464: result = json.loads(response_text), then
\* _parse_vision_response(result)
LoadResponse ==
    /\ r_pc = "response"
    /\ LET result_dict == json_loads(strip(json_text))
       IN /\ parsed_ok' = result_dict.ok
          /\ parsed_doc' = IF result_dict.ok THEN parse_vision_response(result_dict.val)
                                             ELSE NoDict
    /\ r_pc' = "parsed"
    /\ UNCHANGED <<json_text, repaired, requestVars, pipelineVars, callVars, jobVars,
                   fontVars, ocrVars,
                   raceVars, cacheVars>>

NextLines == LoadResponse

SpecLines == InitLines /\ [][NextLines]_vars

(***************************************************************************)
(* reduce_font_if_overflow (ppt_service.py 1333-1404)                      *)
(***************************************************************************)
\* the arguments create_translated_ppt passes at line 1747
max_iterations == 20
min_font_size == 6

\* len(p.text) and p.text.strip() of a paragraph: its text is its runs' texts
RECURSIVE text_len(_, _)
text_len(runs, j) ==
    IF j > Len(runs) THEN 0 ELSE Len(runs[j].text) + text_len(runs, j + 1)
has_text(para) ==
    \E j \in 1..Len(para.runs) :
        \E k \in 1..Len(para.runs[j].text) : para.runs[j].text[k] \notin Whitespace

\* line 1371: total_chars of paragraphs i..
RECURSIVE total_chars(_, _)
total_chars(paras, i) ==
    IF i > Len(paras) THEN 0
    ELSE text_len(paras[i].runs, 1) + total_chars(paras, i + 1)

\* line 1370
num_paragraphs(paras) == Cardinality({i \in 1..Len(paras) : has_text(paras[i])})

\* lines 1357-1363: the smallest size in use, 100 points when no run has one
RunSizes(paras) ==
    UNION { {paras[i].runs[j].size : j \in 1..Len(paras[i].runs)} :
                i \in 1..Len(paras) } \ {0}
smallest_font(paras) ==
    LET sizes == RunSizes(paras) \cup {Pt(100)}
    IN CHOOSE m \in sizes : \A x \in sizes : m <= x

Max(a, b) == IF a >= b THEN a ELSE b

\* lines 1375-1380; total / max(n, 1) > 60 as total > 60 * max(n, 1)
needs_reduction(paras) ==
    LET n == num_paragraphs(paras)
        chars == total_chars(paras, 1)
    IN \/ n > 30
       \/ chars > 2500
       \/ (n > 20 /\ chars > 60 * Max(n, 1))

\* lines 1386-1392: every run above the floor loses half a point
reduce_fonts(paras) ==
    [i \in 1..Len(paras) |->
        [paras[i] EXCEPT !.runs =
            [j \in 1..Len(paras[i].runs) |->
                LET run == paras[i].runs[j]
                IN IF run.size # 0 /\ run.size > Pt(min_font_size)
                   THEN [run EXCEPT !.size = Max(Pt(min_font_size), run.size - 50)]
                   ELSE run]]]

\* a line of two blocks of the same text, of relative sizes s1 and s2
FontBlock(text, size_relative) ==
    [ type |-> "paragraph", original |-> text, translated |-> text,
      formatting |-> [ bold |-> FALSE, size_relative |-> size_relative,
                       color |-> S_black, alignment |-> S_left ],
      has_emoji |-> TRUE ]
FontLine(text, s1, s2) ==
    [ line_blocks |-> <<FontBlock(text, s1), FontBlock(text, s2)>>,
      alignment |-> S_left ]

\* the rendered documents: how many lines, how long the texts, which
\* relative sizes of SIZE_MAP, which base font size
LineCounts == {1, 10, 21, 31}
TextLengths == {1, 31, 126}
SizePairs == {<<0, 0>>, <<0 - 4, 7>>, <<0 - 2, 3>>}
BaseFontSizes == {8, 11, 16}

\* create_translated_ppt lines 1738-1747: the frame as rendered
InitFont ==
    /\ base_font_size \in BaseFontSizes
    /\ \E n \in LineCounts, len \in TextLengths, sz \in SizePairs :
         LET text == [k \in 1..len |-> "x"]
         IN f_frame = apply_formatting_from_structure(
                          [i \in 1..n |-> FontLine(text, sz[1], sz[2])], FALSE)
    /\ f_pc = "start"
    /\ iteration = 0
    /\ PipelineIdle
    /\ RepairIdle
    /\ OcrIdle
    /\ RaceIdle
    /\ CacheIdle

\* lines 1343-1351: a frame without text is left alone
FontStart ==
    /\ f_pc = "start"
    /\ f_pc' = IF \E i \in 1..Len(f_frame) : has_text(f_frame[i]) THEN "loop"
                                                                  ELSE "done"
    /\ UNCHANGED <<f_frame, iteration, requestVars, pipelineVars, callVars,
                   jobVars, repairVars, ocrVars,
                   raceVars, cacheVars>>

\* lines 1355-1396: one iteration of the loop
FontIteration ==
    /\ f_pc = "loop"
    /\ iteration < max_iterations
    /\ IF smallest_font(f_frame) <= Pt(min_font_size) \/ ~needs_reduction(f_frame)
       THEN /\ f_pc' = "done"
            /\ UNCHANGED <<f_frame, iteration>>
       ELSE /\ f_frame' = reduce_fonts(f_frame)
            /\ iteration' = iteration + 1
            /\ f_pc' = IF reduce_fonts(f_frame) = f_frame THEN "done" ELSE "loop"
    /\ UNCHANGED <<requestVars, pipelineVars, callVars, jobVars, repairVars, ocrVars,
                   raceVars, cacheVars>>

\* line 1355: range(max_iterations) is exhausted
FontLoopEnd ==
    /\ f_pc = "loop"
    /\ iteration = max_iterations
    /\ f_pc' = "done"
    /\ UNCHANGED <<f_frame, iteration, requestVars, pipelineVars, callVars,
                   jobVars, repairVars, ocrVars,
                   raceVars, cacheVars>>

NextFont == FontStart \/ FontIteration \/ FontLoopEnd
SpecFont == InitFont /\ [][NextFont]_vars

(***************************************************************************)
(* ocr_extract_text (ppt_service.py 623-859)                               *)
(***************************************************************************)
Upper == {UpperCase[k] : k \in 1..Len(UpperCase)}
Lower == {LowerCase[k] : k \in 1..Len(LowerCase)}
Letter == Upper \cup Lower

\* the first position from i on whose character is not in chars
SpanEnd(t, i, chars) ==
    CHOOSE j \in i..(Len(t) + 1) :
        /\ j = Len(t) + 1 \/ t[j] \notin chars
        /\ \A k \in i..(j - 1) : t[k] \in chars

Count(t, chars) == Cardinality({i \in 1..Len(t) : t[i] \in chars})
Contains(t, word) ==
    \E i \in 1..(Len(t) - Len(word) + 1) : SubSeq(t, i, i + Len(word) - 1) = word

\* " ".join(paragraph)
RECURSIVE join_space(_)
join_space(paragraph) ==
    IF paragraph = <<>> THEN <<>>
    ELSE IF Len(paragraph) = 1 THEN paragraph[1]
    ELSE paragraph[1] \o <<" ">> \o join_space(Tail(paragraph))

\* lines 649-659: strip every line, keep one of several blank lines
RECURSIVE collapse_blank(_, _)
collapse_blank(lines, prev_empty) ==
    IF lines = <<>> THEN <<>>
    ELSE LET stripped == strip(Head(lines))
         IN IF stripped # <<>>
            THEN <<stripped>> \o collapse_blank(Tail(lines), FALSE)
            ELSE IF ~prev_empty
            THEN << <<>> >> \o collapse_blank(Tail(lines), TRUE)
            ELSE collapse_blank(Tail(lines), prev_empty)

\* line 661 and raw.splitlines(): "\n".join(...).strip() takes the blank
\* lines off both ends
RECURSIVE trim_blank_lines(_)
trim_blank_lines(lines) ==
    IF lines = <<>> THEN <<>>
    ELSE IF Head(lines) = <<>> THEN trim_blank_lines(Tail(lines))
    ELSE IF lines[Len(lines)] = <<>>
    THEN trim_blank_lines(SubSeq(lines, 1, Len(lines) - 1))
    ELSE lines

\* lines 676-679: (\d+\s+){3,}\d*[\]\)]? found, with at most two letters
DigitGroupEnd(t, i) ==
    IF i = 0 \/ i > Len(t) THEN 0
    ELSE LET d == SpanEnd(t, i, Digit)
             w == SpanEnd(t, d, Whitespace)
         IN IF d > i /\ w > d THEN w ELSE 0
\* lines 682-686: five or more words, 80% of them short and upper-case
WordStarts(t) ==
    {i \in 1..Len(t) : t[i] \notin Whitespace /\ (i = 1 \/ t[i - 1] \in Whitespace)}
WordAt(t, i) == SubSeq(t, i, SpanEnd(t, i, {t[k] : k \in 1..Len(t)} \ Whitespace) - 1)
isupper(w) == Count(w, Upper) > 0 /\ Count(w, Lower) = 0
is_scale_artifact(t) ==
    \/ /\ \E i \in 1..Len(t) :
            DigitGroupEnd(t, DigitGroupEnd(t, DigitGroupEnd(t, i))) # 0
       /\ Count(t, Letter) <= 2
    \/ LET words == WordStarts(t)
           short_words == {i \in words : Len(WordAt(t, i)) <= 3 /\ isupper(WordAt(t, i))}
       IN /\ Cardinality(words) >= 5
          /\ Cardinality(short_words) * 10 >= Cardinality(words) * 8

\* lines 690-703
is_garbage_line(t) ==
    /\ Len(t) < 15
    /\ \/ Len(t) - Count(t, Letter \cup Digit \cup Whitespace) > Count(t, Letter)
       \/ LET n == SpanEnd(t, 1, Lower) - 1
          IN /\ n \in 1..3
             /\ n < Len(t)
             /\ t[n + 1] = "."
             /\ \A k \in (n + 2)..Len(t) : t[k] \in Whitespace

\* lines 705-707
BulletChars == {"+", "#", "-", "*"}
is_bullet(t) ==
    /\ Len(t) >= 2
    /\ t[1] \in BulletChars \cup Lower
    /\ t[2] \in Whitespace

\* lines 709-717
TitleKeywords ==
    { <<"(", "O", "p", "t", "i", "o", "n", ")">>,
      <<"(", "S", "c", "a", "l", "e", ")">>,
      <<"(", "Q", "u", "e", "s", "t", "i", "o", "n", ")">>,
      <<"I", "n", "t", "r", "o">> }
is_title(t) ==
    \/ LET d == SpanEnd(t, 1, Digit)
           w == SpanEnd(t, d, Whitespace)
       IN d > 1 /\ w <= Len(t) /\ t[w] = "-"
    \/ \E word \in TitleKeywords : Contains(t, word)

\* lines 721-737 and 833-853: the lines that are kept
RECURSIVE filter_lines(_)
filter_lines(lines) ==
    IF lines = <<>> THEN <<>>
    ELSE LET stripped == strip(Head(lines))
         IN IF stripped = <<>> THEN << <<>> >> \o filter_lines(Tail(lines))
            ELSE IF \/ Count(stripped, Letter \cup Digit) = 0
                    \/ is_scale_artifact(stripped)
                    \/ is_garbage_line(stripped)
            THEN filter_lines(Tail(lines))
            ELSE <<stripped>> \o filter_lines(Tail(lines))

StrongPunctuation == {".", "!", "?", ":"}

\* lines 793-796 and 818-820: one of the lines j, j + 1, j + 2
looks_like_list(lines, j, quoted) ==
    \E k \in j..(j + 2) :
        /\ k <= Len(lines)
        /\ lines[k] # <<>>
        /\ IF quoted THEN startswith(lines[k], {Quote}) \/ (Len(lines[k]) < 60 /\ k = j)
                     ELSE Len(lines[k]) < 60

\* lines 773-826: the lines joined to a paragraph, and the line after them
RECURSIVE join_paragraph(_, _, _)
join_paragraph(lines, paragraph, j) ==
    IF j > Len(lines) THEN [paragraph |-> paragraph, j |-> j]
    ELSE
      LET next_line == lines[j]
          stop == [paragraph |-> paragraph, j |-> j]
          join == join_paragraph(lines, Append(paragraph, next_line), j + 1)
      IN IF next_line = <<>> THEN stop
         ELSE IF is_title(next_line) \/ is_bullet(next_line) THEN stop
         ELSE IF ~endswith(rstrip(join_space(paragraph)), StrongPunctuation)
         THEN IF /\ startswith(next_line, {Quote})
                 /\ Len(next_line) < 80
                 /\ looks_like_list(lines, j, TRUE)
              THEN stop ELSE join
         ELSE IF next_line[1] \in Lower \cup {Quote, ",", ";", ":"} THEN join
         ELSE IF next_line[1] \in Upper /\ Len(next_line) > 60 THEN stop
         ELSE IF /\ next_line[1] \in Upper
                 /\ Len(next_line) < 60
                 /\ looks_like_list(lines, j, FALSE)
         THEN stop
         ELSE join

\* lines 740-830: the second pass, from line i on
RECURSIVE smart_grouping(_, _, _)
smart_grouping(lines, i, out) ==
    IF i > Len(lines) THEN out
    ELSE
      LET line == lines[i] IN
      IF line = <<>> THEN smart_grouping(lines, i + 1, Append(out, <<>>))
      ELSE IF is_title(line)
      THEN smart_grouping(lines, i + 1,
               Append(IF out # <<>> /\ out[Len(out)] # <<>> THEN Append(out, <<>>)
                                                           ELSE out, line))
      ELSE IF is_bullet(line) THEN smart_grouping(lines, i + 1, Append(out, line))
      ELSE IF i > 1 /\ endswith(lines[i - 1], {"?"}) /\ Len(line) < 80
      THEN smart_grouping(lines, i + 1, Append(out, line))
      ELSE LET joined == join_paragraph(lines, <<line>>, i + 1)
           IN smart_grouping(lines, joined.j,
                             Append(out, join_space(joined.paragraph)))

\* lines tesseract may read on a slide
L_blank == <<>>
L_title ==
        <<"1", " ", "-", " ", "I", "n", "t", "r", "o">>
L_bullet ==
        <<"-", " ", "y", "e", "s">>
L_open ==
        <<"W", "e", " ", "a", "s", "k">>
L_closed ==
        <<"a", "g", "a", "i", "n", ".">>
L_option ==
        <<Quote, "N", "o", Quote>>
L_symbols ==
        <<" ", "#", "!">>
OcrLineTexts == {L_blank, L_title, L_bullet, L_open, L_closed, L_option, L_symbols}

\* the longest page of text read
MaxOcrLines == 3

\* pytesseract.image_to_string(...).splitlines(), line 646-649
InitOcr ==
    /\ o_pc = "read"
    /\ \E n \in 1..MaxOcrLines : ocr_lines \in [1..n -> OcrLineTexts]
    /\ raw_lines = <<>>
    /\ cleaned = <<>>
    /\ lines_out = <<>>
    /\ ocr_text = <<>>
    /\ base_font_size = default_base_font_size
    /\ PipelineIdle
    /\ RepairIdle
    /\ FontIdle
    /\ RaceIdle
    /\ CacheIdle

\* lines 649-670
OcrClean ==
    /\ o_pc = "read"
    /\ raw_lines' = trim_blank_lines(collapse_blank(ocr_lines, FALSE))
    /\ o_pc' = "cleaned"
    /\ UNCHANGED <<ocr_lines, cleaned, lines_out, ocr_text, requestVars,
                   pipelineVars, callVars, jobVars, repairVars, fontVars,
                   raceVars, cacheVars>>

\* lines 719-737: the first pass
OcrFilter ==
    /\ o_pc = "cleaned"
    /\ cleaned' = filter_lines(raw_lines)
    /\ o_pc' = "filtered"
    /\ UNCHANGED <<ocr_lines, raw_lines, lines_out, ocr_text, requestVars,
                   pipelineVars, callVars, jobVars, repairVars, fontVars,
                   raceVars, cacheVars>>

\* lines 739-830: the second pass
OcrGroup ==
    /\ o_pc = "filtered"
    /\ lines_out' = smart_grouping(cleaned, 1, <<>>)
    /\ o_pc' = "grouped"
    /\ UNCHANGED <<ocr_lines, raw_lines, cleaned, ocr_text, requestVars,
                   pipelineVars, callVars, jobVars, repairVars, fontVars,
                   raceVars, cacheVars>>

\* lines 832-855: lines_out is emptied and filled again from raw, and the
\* text returned is its lines joined
OcrReturn ==
    /\ o_pc = "grouped"
    /\ lines_out' = filter_lines(raw_lines)
    /\ ocr_text' = trim_blank_lines(filter_lines(raw_lines))
    /\ o_pc' = "done"
    /\ UNCHANGED <<ocr_lines, raw_lines, cleaned, requestVars,
                   pipelineVars, callVars, jobVars, repairVars, fontVars,
                   raceVars, cacheVars>>

NextOcr == OcrClean \/ OcrFilter \/ OcrGroup \/ OcrReturn
SpecOcr == InitOcr /\ [][NextOcr]_vars

(***************************************************************************)
(* update_progress against cancel_translation on the same jobs row         *)
(* (ppt_translation.py 252-280 and 567-598).  Each runs in its own         *)
(* session; the awaits of the two coroutines interleave.                   *)
(***************************************************************************)
\* the statuses of the callbacks of a slide that is translated and rendered
\* (ppt_service.py lines 1672, 1709, 1737, 1799); the provider call follows
\* the second
SlideCallbacks == <<"processing", "processing", "processing", "completed">>
CallbackBeforeProvider == 2

InitRace ==
    /\ provider = "claude"
    /\ api_key = "key"
    /\ same_lang = FALSE
    /\ slides = [j \in 1..NumSlides |-> [selected |-> TRUE, pictures |-> <<"ok">>]]
    /\ base_font_size = default_base_font_size
    /\ pc = "idle"
    /\ idx = 0
    /\ selected_slide_counter = 0
    /\ stats = [ total_slides |-> NumSlides, processed_slides |-> 0,
                 skipped_slides |-> 0, failed_slides |-> 0,
                 slide_methods |-> <<>>, warnings |-> <<>>,
                 total_input_tokens |-> 0, total_output_tokens |-> 0,
                 total_cost |-> 0 ]
    /\ new_slides = 0
    /\ text_frames = <<>>
    /\ result = NoResult
    /\ exc = "None"
    /\ last_call = NoCall
    /\ slide_status = [j \in 1..NumSlides |-> "None"]
    /\ vision = NoVision
    /\ chain = NoChain
    /\ blocking = NoBlocking
    /\ job = [ status |-> "processing", slides_processed |-> 0,
               total_slides |-> 3 * NumSlides, error_message |-> "None",
               cancelled |-> FALSE ]
    /\ cancel = NoCancel
    /\ t_pc = "checkpoint"
    /\ t_slide = 1
    /\ t_phase = 1
    /\ t_job = NoJob
    /\ c_pc = "idle"
    /\ calls_after_cancel = 0
    /\ RepairIdle
    /\ FontIdle
    /\ OcrIdle
    /\ CacheIdle

\* update_progress lines 255-266: the row is selected and refreshed, the
\* flag is tested
RaceRefresh ==
    /\ t_pc = "checkpoint"
    /\ t_job' = [status |-> job.status, cancelled |-> job.cancelled]
    /\ t_pc' = IF job.cancelled THEN "raised" ELSE "refreshed"
    /\ UNCHANGED <<t_slide, t_phase, c_pc, calls_after_cancel, job>>
    /\ UNCHANGED <<requestVars, pipelineVars, callVars, cancel, repairVars,
                   fontVars, ocrVars, cacheVars>>

\* update_progress lines 269-280: the commit writes the columns the session
\* changed: slides_processed, settings_used as refreshed with the slide index
\* (flag_modified), and status when it differs from the refreshed one
RaceCommit ==
    /\ t_pc = "refreshed"
    /\ LET status == SlideCallbacks[t_phase]
           written == IF status # "failed" THEN "processing" ELSE "failed"
       IN job' = [job EXCEPT
                     !.slides_processed = t_slide,
                     !.cancelled = t_job.cancelled,
                     !.status = IF written # t_job.status THEN written ELSE @]
    /\ IF t_phase = CallbackBeforeProvider
       THEN /\ t_pc' = "provider"
            /\ t_phase' = t_phase + 1
            /\ t_slide' = t_slide
       ELSE IF t_phase < Len(SlideCallbacks)
       THEN /\ t_pc' = "checkpoint"
            /\ t_phase' = t_phase + 1
            /\ t_slide' = t_slide
       ELSE IF t_slide < NumSlides
       THEN /\ t_pc' = "checkpoint"
            /\ t_phase' = 1
            /\ t_slide' = t_slide + 1
       ELSE /\ t_pc' = "returned"
            /\ t_phase' = t_phase
            /\ t_slide' = t_slide
    /\ UNCHANGED <<t_job, c_pc, calls_after_cancel>>
    /\ UNCHANGED <<requestVars, pipelineVars, callVars, cancel, repairVars,
                   fontVars, ocrVars, cacheVars>>

\* ppt_service.py lines 1711-1716: the provider call of the slide
RaceProviderCall ==
    /\ t_pc = "provider"
    /\ calls_after_cancel' = IF c_pc = "committed" THEN calls_after_cancel + 1
                             ELSE calls_after_cancel
    /\ t_pc' = "checkpoint"
    /\ UNCHANGED <<t_slide, t_phase, t_job, c_pc, job>>
    /\ UNCHANGED <<requestVars, pipelineVars, callVars, cancel, repairVars,
                   fontVars, ocrVars, cacheVars>>

\* cancel_translation lines 573-580: the row is selected, its status tested
CancelRead ==
    /\ c_pc = "idle"
    /\ c_pc' = IF job.status \in {"pending", "processing"} THEN "read" ELSE "rejected"
    /\ UNCHANGED <<t_pc, t_slide, t_phase, t_job, calls_after_cancel, job>>
    /\ UNCHANGED <<requestVars, pipelineVars, callVars, cancel, repairVars,
                   fontVars, ocrVars, cacheVars>>

\* cancel_translation lines 583-595: status, message and flag are committed
CancelCommit ==
    /\ c_pc = "read"
    /\ job' = [job EXCEPT !.status = "failed",
                          !.error_message = "Cancelled by user",
                          !.cancelled = TRUE]
    /\ c_pc' = "committed"
    /\ UNCHANGED <<t_pc, t_slide, t_phase, t_job, calls_after_cancel>>
    /\ UNCHANGED <<requestVars, pipelineVars, callVars, cancel, repairVars,
                   fontVars, ocrVars, cacheVars>>

NextRace ==
    \/ RaceRefresh
    \/ RaceCommit
    \/ RaceProviderCall
    \/ CancelRead
    \/ CancelCommit

SpecRace == InitRace /\ [][NextRace]_vars

(***************************************************************************)
(* _get_ct2_translator called by translate_offline from the threads of     *)
(* the pool (ppt_service.py 891-944, 947-982, 1280-1283)                   *)
(***************************************************************************)
\* calls of translate_offline one thread starts
MaxCalls == 2

InitCache ==
    /\ ct2_translators = [p \in Pairs |-> 0]
    /\ instantiated = [p \in Pairs |-> 0]
    /\ w_pc = [w \in Workers |-> "idle"]
    /\ w_pair = [w \in Workers |-> "None"]
    /\ w_translator = [w \in Workers |-> 0]
    /\ w_calls = [w \in Workers |-> 0]
    /\ base_font_size = default_base_font_size
    /\ PipelineIdle
    /\ RepairIdle
    /\ FontIdle
    /\ OcrIdle
    /\ RaceIdle

\* lines 1280-1283 and 955: a thread of the pool starts translate_offline
CacheCall(w) ==
    /\ w_pc[w] = "idle"
    /\ w_calls[w] < MaxCalls
    /\ \E p \in Pairs : w_pair' = [w_pair EXCEPT ![w] = p]
    /\ w_calls' = [w_calls EXCEPT ![w] = @ + 1]
    /\ w_translator' = [w_translator EXCEPT ![w] = 0]
    /\ w_pc' = [w_pc EXCEPT ![w] = "lookup"]
    /\ UNCHANGED <<ct2_translators, instantiated>>

\* lines 905-907: the test of the dict
CacheLookup(w) ==
    /\ w_pc[w] = "lookup"
    /\ IF ct2_translators[w_pair[w]] # 0
       THEN /\ w_translator' = [w_translator EXCEPT ![w] = ct2_translators[w_pair[w]]]
            /\ w_pc' = [w_pc EXCEPT ![w] = "idle"]
       ELSE /\ w_translator' = w_translator
            /\ w_pc' = [w_pc EXCEPT ![w] = "load"]
    /\ UNCHANGED <<ct2_translators, instantiated, w_pair, w_calls>>

\* lines 909-938: the model is converted and a translator instantiated, or
\* the conversion fails and translate_offline returns None
CacheLoad(w) ==
    /\ w_pc[w] = "load"
    /\ \/ /\ instantiated' = [instantiated EXCEPT ![w_pair[w]] = @ + 1]
          /\ w_translator' = [w_translator EXCEPT ![w] = instantiated[w_pair[w]] + 1]
          /\ w_pc' = [w_pc EXCEPT ![w] = "store"]
       \/ /\ w_pc' = [w_pc EXCEPT ![w] = "idle"]
          /\ UNCHANGED <<instantiated, w_translator>>
    /\ UNCHANGED <<ct2_translators, w_pair, w_calls>>

\* lines 940-942: the translator is stored and returned
CacheStore(w) ==
    /\ w_pc[w] = "store"
    /\ ct2_translators' = [ct2_translators EXCEPT ![w_pair[w]] = w_translator[w]]
    /\ w_pc' = [w_pc EXCEPT ![w] = "idle"]
    /\ UNCHANGED <<instantiated, w_pair, w_translator, w_calls>>

NextCache ==
    /\ \E w \in Workers :
        \/ CacheCall(w)
        \/ CacheLookup(w)
        \/ CacheLoad(w)
        \/ CacheStore(w)
    /\ UNCHANGED <<requestVars, pipelineVars, callVars, jobVars, repairVars,
                   fontVars, ocrVars, raceVars>>

SpecCache == InitCache /\ [][NextCache]_vars

(***************************************************************************)
(* apply_formatting_from_structure on the structure of an answer           *)
(* (ppt_service.py 1407-1549), as create_translated_ppt calls it           *)
(***************************************************************************)
\* {"blocks":[]}
RenderBlank ==
    <<"{", Quote, "b", "l", "o", "c", "k", "s", Quote, ":", "[", "]", "}">>
\* {"blocks":[{"text":"a"},{"text":"b","color":"red"}]}
RenderPair ==
    <<"{", Quote, "b", "l", "o", "c", "k", "s", Quote, ":", "[", "{",
      Quote, "t", "e", "x", "t", Quote, ":", Quote, "a", Quote, "}", ",",
      "{", Quote, "t", "e", "x", "t", Quote, ":", Quote, "b", Quote, ",",
      Quote, "c", "o", "l", "o", "r", Quote, ":", Quote, "r", "e", "d",
      Quote, "}", "]", "}">>
\* {"blocks":[{"text":"c\n","bold":true,"color":"red"},{"text":",d"}]}
RenderBreak ==
    <<"{", Quote, "b", "l", "o", "c", "k", "s", Quote, ":", "[", "{",
      Quote, "t", "e", "x", "t", Quote, ":", Quote, "c", Backslash, "n",
      Quote, ",", Quote, "b", "o", "l", "d", Quote, ":", "t", "r", "u",
      "e", ",", Quote, "c", "o", "l", "o", "r", Quote, ":", Quote, "r",
      "e", "d", Quote, "}", ",", "{", Quote, "t", "e", "x", "t", Quote,
      ":", Quote, ",", "d", Quote, "}", "]", "}">>
\* {"blocks":[{"text":""},{"text":"e","color":"Red"}]}
RenderMixed ==
    <<"{", Quote, "b", "l", "o", "c", "k", "s", Quote, ":", "[", "{",
      Quote, "t", "e", "x", "t", Quote, ":", Quote, Quote, "}", ",", "{",
      Quote, "t", "e", "x", "t", Quote, ":", Quote, "e", Quote, ",",
      Quote, "c", "o", "l", "o", "r", Quote, ":", Quote, "R", "e", "d",
      Quote, "}", "]", "}">>
\* {"blocks":[{"text":""}]}
RenderHollow ==
    <<"{", Quote, "b", "l", "o", "c", "k", "s", Quote, ":", "[", "{",
      Quote, "t", "e", "x", "t", Quote, ":", Quote, Quote, "}", "]", "}">>

RenderLineTexts == {RenderBlank, RenderPair, RenderBreak, RenderMixed, RenderHollow}

\* a block of the flat structure of an OCR slide, with a formatting
FlatBlock(color, bold) ==
    [ type |-> "paragraph", original |-> "t", translated |-> "t",
      formatting |-> [ bold |-> bold, size_relative |-> 0, color |-> color,
                       alignment |-> S_left ],
      has_emoji |-> FALSE ]
FlatBlocks ==
    {FlatBlock(c, b) : c \in {S_black, S_red, <<"R", "e", "d">>}, b \in BOOLEAN}

\* the structure is that of a vision answer in the lines schema, rendered
\* line by line, or a flat one rendered with ocr_mode (line 1742)
InitRender ==
    /\ provider \in {"claude", "ocr_free"}
    /\ IF provider = "claude"
       THEN /\ r_pc = "response"
            /\ \E n \in 0..MaxLines : \E ls \in [1..n -> RenderLineTexts] :
                    json_text = LinesDoc(ls)
            /\ parsed_doc = NoDict
       ELSE /\ r_pc = "parsed"
            /\ json_text = <<>>
            /\ \E n \in 1..MaxLines : \E bs \in [1..n -> FlatBlocks] :
                    parsed_doc = [some |-> TRUE, variant |-> "blocks", structure |-> bs]
    /\ repaired = None
    /\ parsed_ok = FALSE
    /\ base_font_size = default_base_font_size
    /\ TaskIdle
    /\ FontIdle
    /\ OcrIdle
    /\ RaceIdle
    /\ CacheIdle

\* create_translated_ppt lines 1738-1743: the structure is rendered
RenderStructure ==
    /\ r_pc = "parsed"
    /\ parsed_doc.some
    /\ f_pc = "idle"
    /\ f_frame' = apply_formatting_from_structure(parsed_doc.structure,
                                                  provider = "ocr_free")
    /\ f_pc' = "rendered"
    /\ UNCHANGED <<iteration, requestVars, pipelineVars, callVars, jobVars,
                   repairVars, ocrVars, raceVars, cacheVars>>

NextRender == LoadResponse \/ RenderStructure

SpecRender == InitRender /\ [][NextRender]_vars

(***************************************************************************)
(* Properties                                                              *)
(***************************************************************************)
LastRecord == stats.slide_methods[Len(stats.slide_methods)]

Checkpoints ==
    { "cb_processing", "cb_skipped", "cb_ocr", "cb_render", "cb_slide_method",
      "cb_completed", "cb_failed", "cb_failed_except" }

\* the vision call of the openrouter mode left no usable structure
VisionFailed ==
    \/ vision.outcome \in {"error", "unparseable"}
    \/ vision.outcome = "parsed" /\ chain.invoked

\* C1: in the openrouter mode, once the vision call has failed (an HTTP
\* error status, a timeout, a connection error, an answer that is not JSON)
\* process_ppt_slide has invoked call_ocr_openrouter with api_key None, and
\* the vision failure is not the slide's result.
C1_VisionFailureFallsBack ==
    (provider = "openrouter" /\ vision.outcome \in {"error", "unparseable"})
        => (chain.invoked /\ chain.api_key = "None" /\ result.kind # "error")

\* the vision call ended on an HTTP 500 and its error is the slide's result
C1_VisionErrorReturned ==
    /\ provider = "openrouter"
    /\ pc = "after_provider"
    /\ vision.last = "500"
    /\ result.kind = "error"
    /\ ~chain.invoked

\* C2: in the ocr_free mode with source_lang = target_lang, a run of
\* call_ocr_openrouter (with a key or without) makes no request to the text
\* LLM and no offline translation, and what it returns is the OCR text with
\* the method passthrough.
C2_SameLanguagePassthrough ==
    (provider = "ocr_free" /\ same_lang /\ chain.invoked)
        => /\ chain.requests = 0
           /\ chain.offline_calls = 0
           /\ result.kind = "dict" =>
                /\ result.translated_text = result.original_text
                /\ result.translation_method = "passthrough"

\* the same language, a key, and the LLM's text returned as the translation
C2_SameLanguageLlmResult ==
    /\ provider = "ocr_free"
    /\ same_lang
    /\ pc = "after_provider"
    /\ chain.requests = 1
    /\ result.translation_method = "openrouter"
    /\ result.translated_text # result.original_text

\* C3: in the openrouter mode with source_lang # target_lang, when the
\* vision call has failed (and neither OCR nor the offline model fails) the
\* record of the slide in slide_methods has the method "offline".
C3_FallbackRecordedOffline ==
    ( /\ provider = "openrouter"
      /\ ~same_lang
      /\ VisionFailed
      /\ chain.invoked => chain.translation_method = "offline"
      /\ pc \in {"cb_completed", "cb_failed"} )
        => (LastRecord.slide = idx /\ LastRecord.method = "offline")

\* the fallback ran and translated offline, the slide's record has no method
C3_OfflineRecordedWithoutMethod ==
    /\ provider = "openrouter"
    /\ ~same_lang
    /\ pc = "cb_completed"
    /\ chain.translation_method = "offline"
    /\ LastRecord.slide = idx
    /\ LastRecord.method = "None"

\* C4: when the cancel flag is set between slides, after the k-th selected
\* slide has completed, the job ends with no provider call, render or
\* terminal status after the flag, with create_translated_ppt having raised,
\* and as failed with "Cancelled by user", not as completed.
C4_CancelAfterSlideEndsCancelled ==
    (cancel.accepted /\ cancel.after_completed /\ pc = "done")
        => /\ ~cancel.activity
           /\ exc = CancelMessage
           /\ job.status = "failed"
           /\ job.error_message = "Cancelled by user"

\* a cancel accepted after the last selected slide, and the job completed
C4_CancelledJobCompleted ==
    /\ cancel.accepted
    /\ cancel.after_completed
    /\ cancel.k >= 1
    /\ pc = "done"
    /\ job.cancelled
    /\ job.status = "completed"

\* C5: at every checkpoint of create_translated_ppt, a callback that raises
\* the cancellation makes create_translated_ppt raise it, and the step adds
\* nothing to failed_slides, warnings or slide_methods.
C5_CancellationPropagates ==
    [][ (pc \in Checkpoints /\ update_progress_raises /\ pc' # pc)
          => /\ pc' = "raised"
             /\ exc' = CancelMessage
             /\ stats'.failed_slides = stats.failed_slides
             /\ stats'.warnings = stats.warnings
             /\ stats'.slide_methods = stats.slide_methods ]_vars

\* the cancellation was raised inside the try block, with a result at hand
C5_RaisedInsideTry ==
    /\ pc = "raised"
    /\ exc = CancelMessage
    /\ result.kind = "dict"
    /\ stats.failed_slides = 0

\* C6: a slide whose provider result is an error or empty, or whose
\* translation or rendering raises something other than the cancellation,
\* does not make create_translated_ppt raise: failed_slides grows by one,
\* one warning and one slide_methods record with the slide's 1-based index
\* and the error text are added, and after its "failed" callback the loop
\* goes on to the next slide.  Translation and rendering are the steps after
\* the copy of the picture (the try of line 1706).
C6_FailureRecordedLoopContinues ==
    [][ /\ (pc = "after_provider" /\ ~(result.kind = "dict" /\ result.structure # <<>>)
              /\ pc' # pc)
            => (pc' = "cb_failed" /\ stats'.failed_slides = stats.failed_slides + 1)
        /\ (pc # "cb_processing" /\ exc = "None" /\ exc' \notin {"None", CancelMessage})
            => (pc' = "cb_failed_except" /\ stats'.failed_slides = stats.failed_slides + 1)
        /\ stats'.failed_slides # stats.failed_slides
            => /\ stats'.failed_slides = stats.failed_slides + 1
               /\ Len(stats'.warnings) = Len(stats.warnings) + 1
               /\ Len(stats'.slide_methods) = Len(stats.slide_methods) + 1
               /\ stats'.warnings[Len(stats'.warnings)].slide = idx
               /\ stats'.slide_methods[Len(stats'.slide_methods)].slide = idx
               /\ stats'.slide_methods[Len(stats'.slide_methods)].error
                    = stats'.warnings[Len(stats'.warnings)].error
               /\ stats'.warnings[Len(stats'.warnings)].error # "None"
               /\ pc' \in {"cb_failed", "cb_failed_except"}
        /\ (pc \in {"cb_failed", "cb_failed_except"} /\ ~update_progress_raises
              /\ pc' # pc)
            => (pc' = "loop" /\ idx' = idx)
        /\ (pc \notin {"cb_processing", "raised"} /\ pc' = "raised")
            => exc' = CancelMessage ]_vars

\* the first slide failed and a later slide was processed
C6_LaterSlideProcessed ==
    /\ stats.failed_slides = 1
    /\ Len(stats.warnings) = 1
    /\ stats.slide_methods[1].method = "unknown"
    /\ stats.processed_slides >= 1
    /\ LastRecord.slide > stats.slide_methods[1].slide

\* one more request of an OpenRouter call: c before it, d after it
RetryStep(c, d, call_pc) ==
    d.requests = c.requests + 1 =>
        /\ c.requests = 0 \/ c.last = "429"
        /\ d.requests <= max_retries + 1
        /\ Len(d.waits) <= max_retries
        /\ pc' = call_pc =>
             /\ d.last = "429"
             /\ Len(d.waits) = Len(c.waits) + 1
             /\ d.waits[Len(d.waits)] = 2 ^ Len(d.waits)
        /\ d.last # "429" => (pc' # call_pc /\ d.waits = c.waits)

\* C7: in the vision call and in the text-LLM call of OpenRouter a request
\* is repeated only after a 429, at most 3 times (at most 4 requests), the
\* wait before the n-th retry is 2^n seconds, and any other answer ends
\* the call.
C7_RetryOnlyOn429 ==
    [][ /\ pc = "call_openrouter_vision"
            => RetryStep(vision, vision', "call_openrouter_vision")
        /\ pc = "text_llm" => RetryStep(chain, chain', "text_llm") ]_vars

\* three retries were made and the fourth request is under way or over
C7_FourRequests ==
    /\ provider = "openrouter"
    /\ vision.requests = 4
    /\ vision.waits = <<2, 4, 8>>

\* C8: a call that OpenRouter keeps answering with 429 is given up after
\* its 3 retries and the next stage runs: the OCR chain after the vision
\* call, the offline stage after the text LLM.
C8_RateLimitFallsBack ==
    /\ (provider = "openrouter" /\ vision.requests = max_retries + 1
          /\ vision.last = "429")
        => (chain.invoked /\ result.kind # "error")
    /\ (chain.requests = max_retries + 1 /\ chain.last = "429")
        => \/ pc = "translate_offline"
           \/ chain.offline_calls = 1
           \/ chain.translation_method = "passthrough"

\* the vision call ran out of retries on 429 and the slide has failed
C8_RateLimitedSlideFailed ==
    /\ provider = "openrouter"
    /\ vision.requests = max_retries + 1
    /\ vision.last = "429"
    /\ pc = "cb_failed"
    /\ ~chain.invoked

\* C9: when Claude's text parses neither directly nor after the repair,
\* call_claude_vision has issued exactly one more call, with the compact
\* prompt, by the time it returns.
C9_CompactRetryIssued ==
    (provider = "claude" /\ vision.outcome = "unparseable" /\ pc = "after_provider")
        => (vision.compact_calls = 1 /\ vision.requests = 2)

\* the text was unparseable and the call returned None after one request
C9_NoRetryCall ==
    /\ provider = "claude"
    /\ vision.outcome = "unparseable"
    /\ pc = "after_provider"
    /\ vision.requests = 1
    /\ result.kind = "None"

\* C10: the text _repair_truncated_json returns for a JSON object cut
\* after a complete top-level pair parses as JSON.
C10_RepairedTextParses == r_pc = "parsed" => parsed_ok

\* a cut after a number: the repaired text does not parse
C10_CutAfterNumber ==
    /\ r_pc = "parsed"
    /\ json_text # <<>>
    /\ json_text[Len(json_text)] \in Digit
    /\ repaired.some
    /\ ~parsed_ok

\* the texts of the blocks of the last line of the parsed document
LastLineTexts ==
    LET line == parsed_doc.structure[Len(parsed_doc.structure)]
    IN [i \in 1..Len(line.line_blocks) |-> line.line_blocks[i].translated]

\* C11: for a "lines" answer cut inside the third block of its last line,
\* the repaired text parses and the last line of the parsed document holds
\* exactly the two complete blocks.
C11_TwoCompleteBlocks ==
    r_pc = "parsed" =>
        /\ parsed_ok
        /\ parsed_doc.some
        /\ parsed_doc.structure # <<>>
        /\ LastLineTexts = << <<"A">>, <<"B">> >>

\* a cut inside the text of the third block: nothing parses
C11_CutInsideText ==
    /\ r_pc = "parsed"
    /\ json_text[Len(json_text)] = "C"
    /\ repaired.some
    /\ ~parsed_ok

\* the result of the current slide holds a block whose text is not empty
\* (the OCR chain builds its structure from translated_text, lines 1292-1300)
HasTextBlock ==
    IF result.translated_text # "" THEN TRUE
    ELSE IF result.variant = "lines"
    THEN \E i \in 1..Len(result.structure) :
            \E j \in 1..Len(result.structure[i].line_blocks) :
                result.structure[i].line_blocks[j].translated # <<>>
    ELSE \E i \in 1..Len(result.structure) : result.structure[i].translated # <<>>

\* a text region with at least one run that shows something
RegionHasText(paras) ==
    \E i \in 1..Len(paras) :
        \E j \in 1..Len(paras[i].runs) : strip(paras[i].runs[j].text) # <<>>

\* C12: once a slide is counted in processed_slides, and its result holds a
\* block with text, the text region of its new slide shows text, whatever
\* the variant of the structure and the provider mode.
C12_ProcessedSlideShowsText ==
    (pc \in {"cb_slide_method", "cb_completed"} /\ HasTextBlock)
        => RegionHasText(text_frames[new_slides].text_frame)

\* Claude answered in the flat "blocks" variant: the slide is counted and
\* its text box is empty
C12_FlatVisionResultNotRendered ==
    /\ pc = "cb_completed"
    /\ provider = "claude"
    /\ result.variant = "blocks"
    /\ HasTextBlock
    /\ stats.processed_slides > 0
    /\ text_frames[new_slides].text_frame = add_textbox

\* C13: when reduce_font_if_overflow is done with a frame, no run of the
\* frame is below the floor min_font_size, whatever size the run was
\* rendered with, and the loop made at most max_iterations iterations.
C13_SizesBoundedByFloor ==
    /\ f_pc = "done" => \A size \in RunSizes(f_frame) : size >= Pt(min_font_size)
    /\ iteration <= max_iterations

\* a run rendered below the floor is still below it when the function ends
C13_RunBelowFloor ==
    /\ f_pc = "done"
    /\ \E size \in RunSizes(f_frame) : size < Pt(min_font_size)

\* the two parts of C13 that hold: a step of the loop raises no size, and
\* the loop makes at most max_iterations iterations
FontSizesNeverGrow ==
    [][ /\ Len(f_frame') = Len(f_frame)
        /\ \A i \in 1..Len(f_frame) :
             \A j \in 1..Len(f_frame[i].runs) :
                f_frame'[i].runs[j].size <= f_frame[i].runs[j].size
        /\ iteration' <= max_iterations ]_vars

\* C14: a picture whose bytes cannot be decoded never makes
\* create_translated_ppt raise: the only exception that leaves it is the
\* cancellation raised by the progress callback, so the slides after a
\* corrupt picture are still visited.
C14_CorruptPictureNeverRaises ==
    pc = "raised" => exc = CancelMessage

\* the first left-half picture is corrupt, the second one opens: the copy
\* of the picture raises and the selected slide after it is never visited
C14_RaisedOnFirstCorruptPicture ==
    /\ pc = "raised"
    /\ exc = UnidentifiedImage
    /\ slides[idx].pictures = <<"corrupt", "ok">>
    /\ ~job.cancelled
    /\ idx < NumSlides
    /\ slides[idx + 1].selected

\* C15: with the Claude provider, each slide that is counted as processed
\* adds to total_input_tokens and total_output_tokens the token counts the
\* provider reported for that slide's call, and to total_cost their price;
\* no other step changes the totals.
C15_TotalsSumReportedUsage ==
    [][ provider = "claude" =>
          IF stats'.processed_slides = stats.processed_slides + 1
          THEN /\ stats'.total_input_tokens =
                      stats.total_input_tokens + vision.usage.input_tokens
               /\ stats'.total_output_tokens =
                      stats.total_output_tokens + vision.usage.output_tokens
               /\ stats'.total_cost = stats.total_cost + slide_cost(vision.usage)
          ELSE /\ stats'.total_input_tokens = stats.total_input_tokens
               /\ stats'.total_output_tokens = stats.total_output_tokens
               /\ stats'.total_cost = stats.total_cost ]_vars

\* a slide whose answer was repaired is counted as processed and adds
\* nothing to the totals although the provider reported tokens for it
C15_RepairedSlideNotBilled ==
    /\ provider = "claude"
    /\ pc = "cb_completed"
    /\ vision.outcome = "repaired"
    /\ vision.usage.output_tokens > 0
    /\ stats.processed_slides = 1
    /\ stats.total_cost = 0
    /\ stats.total_output_tokens = 0

\* a line the grouping joins to the line before it: not blank, not a title,
\* not a bullet, not a short quoted option
Joinable(line) ==
    /\ line # <<>>
    /\ ~is_title(line)
    /\ ~is_bullet(line)
    /\ ~(startswith(line, {Quote}) /\ Len(line) < 80)

\* no plain line without terminal punctuation stands before a joinable line
OpenLinesJoined(out) ==
    \A i \in 1..(Len(out) - 1) :
        ~ /\ out[i] # <<>>
          /\ ~is_title(out[i])
          /\ ~is_bullet(out[i])
          /\ ~endswith(out[i], StrongPunctuation)
          /\ Joinable(out[i + 1])

\* every title after the first line follows a blank line
TitlesAfterBlank(out) ==
    \A i \in 2..Len(out) : is_title(out[i]) => out[i - 1] = <<>>

\* C16: in the text ocr_extract_text returns, a kept line lacking terminal
\* punctuation is joined with the line after it, unless that line is blank,
\* a title, a bullet or a short quoted option, and every title line is
\* preceded by a blank line.
C16_ReturnedTextGrouped ==
    o_pc = "done" => OpenLinesJoined(ocr_text) /\ TitlesAfterBlank(ocr_text)

\* the second pass joined two lines and the text returned has them apart
C16_GroupingDiscarded ==
    /\ o_pc = "done"
    /\ cleaned = <<L_open, L_closed>>
    /\ smart_grouping(cleaned, 1, <<>>) = <<join_space(<<L_open, L_closed>>)>>
    /\ ocr_text = <<L_open, L_closed>>

\* what the second pass builds has the grouping of C16
GroupedLinesGrouped ==
    o_pc = "grouped" => OpenLinesJoined(lines_out) /\ TitlesAfterBlank(lines_out)

\* the positions of create_translated_ppt inside a provider call
ProviderCall ==
    { "process_ppt_slide", "call_claude_vision", "compact_retry",
      "call_openrouter_vision", "ocr_extract_text", "text_llm",
      "translate_offline" }
TerminalStatus == {"skipped", "completed", "failed"}

\* C17: the slides are processed one after the other in document order:
\* while the provider call of a slide runs, every selected slide before it
\* has a terminal status, no slide after it has been reported, and at most
\* one slide is in processing at any time.
C17_SlidesProcessedSequentially ==
    /\ pc \in ProviderCall =>
          \A j \in 1..(idx - 1) :
              slides[j].selected => slide_status[j] \in TerminalStatus
    /\ \A j \in (idx + 1)..NumSlides : slide_status[j] = "None"
    /\ Cardinality({j \in 1..NumSlides : slide_status[j] = "processing"}) <= 1

\* the provider call of the second slide runs after the first one completed
C17_SecondCallAfterFirstCompleted ==
    /\ pc \in ProviderCall
    /\ idx = 2
    /\ slide_status[1] = "completed"
    /\ slide_status[2] = "processing"

\* C18: every blocking provider operation of a slide (vision request,
\* text-LLM request, local OCR extraction, offline translation) runs on the
\* shared worker pool and never on the event loop.
C18_BlockingRunsOnExecutor == blocking.runs_on \in {"None", "executor"}

\* the local OCR extraction of a slide has run on the event loop
C18_OcrOnEventLoop ==
    /\ blocking = called_directly("ocr_extract_text")
    /\ chain.invoked
    /\ pc \in {"text_llm", "translate_offline", "after_provider"}

\* the lines of the loaded answer, as json.loads gives them
JsonLines == Get(json_loads(strip(json_text)).val, S_lines, JArr(<<>>)).s
JsonBlocks(line) == Get(line, S_blocks, JArr(<<>>)).s

\* C19: for an answer in the lines schema, _parse_vision_response returns one
\* Line per JSON line in the same order, each holding one TextBlock per JSON
\* block in the same order; a JSON line without blocks becomes a Line with an
\* empty block sequence.
C19_OneLinePerJsonLine ==
    r_pc = "parsed" =>
        /\ parsed_ok
        /\ parsed_doc.some
        /\ Len(parsed_doc.structure) = Len(JsonLines)
        /\ \A i \in 1..Len(JsonLines) :
            LET blocks == JsonBlocks(JsonLines[i])
                line_blocks == parsed_doc.structure[i].line_blocks
            IN /\ Len(line_blocks) = Len(blocks)
               /\ \A k \in 1..Len(blocks) :
                    /\ line_blocks[k].original = Get(blocks[k], S_text, JStr(<<>>)).s
                    /\ line_blocks[k].translated = line_blocks[k].original

\* an answer of three lines, the second without blocks, gave three Lines, the
\* second with an empty block sequence
C19_ThreeLinesOneEmpty ==
    /\ r_pc = "parsed"
    /\ json_text = LinesDoc(<<LineOne, LineEmpty, LineTwo>>)
    /\ Len(parsed_doc.structure) = 3
    /\ Len(parsed_doc.structure[1].line_blocks) = 1
    /\ parsed_doc.structure[2].line_blocks = <<>>
    /\ Len(parsed_doc.structure[3].line_blocks) = 2

\* C20: while the pipeline runs and has not been cancelled, a failed slide
\* never sets the job's persisted status to "failed": the job is failed only
\* after a cancellation or an exception that left the pipeline, and a run
\* with failed slides ends with status completed.
C20_JobFailedOnlyByCancelOrException ==
    /\ job.status = "failed" => job.cancelled \/ (pc = "done" /\ exc # "None")
    /\ (pc = "done" /\ exc = "None" /\ stats.failed_slides > 0)
           => job.status = "completed"

\* the "failed" callback of a slide has written status failed to the row of
\* a job that was not cancelled and whose pipeline goes on
C20_FailedSlideMarksJobFailed ==
    /\ job.status = "failed"
    /\ ~job.cancelled
    /\ last_call.status = "failed"
    /\ stats.failed_slides > 0
    /\ pc = "loop"

\* C21: every call of the progress callback by create_translated_ppt, in every
\* provider mode and phase, has a status among processing, skipped, completed
\* and failed, and metadata carrying the 1-based index of the slide concerned.
C21_CallbackNamesSlide ==
    last_call # NoCall =>
        /\ last_call.status \in {"processing", "skipped", "completed", "failed"}
        /\ "slide_index" \in DOMAIN last_call.metadata
        /\ last_call.metadata.slide_index \in 1..NumSlides
        /\ slides[last_call.metadata.slide_index].selected

\* the callback of the slide_method phase was called without a slide index
C21_SlideMethodWithoutIndex ==
    /\ provider = "ocr_free"
    /\ last_call.status = "processing"
    /\ "phase" \in DOMAIN last_call.metadata
    /\ last_call.metadata.phase = "slide_method"
    /\ "slide_index" \notin DOMAIN last_call.metadata
    /\ pc = "cb_completed"

\* C22: for every successfully processed slide, in each provider mode
\* (claude, openrouter, ocr_free), the slide_methods record holds a method
\* among claude_vision, openrouter_vision, openrouter, offline and passthrough,
\* and the name of the model that produced the translation.
C22_ProcessedSlideNamesMethod ==
    \A i \in 1..Len(stats.slide_methods) :
        LET rec == stats.slide_methods[i] IN
        rec.method # "unknown" =>
            /\ rec.method \in {"claude_vision", "openrouter_vision", "openrouter",
                               "offline", "passthrough"}
            /\ rec.model # "None"

\* a slide processed with provider openrouter has a record without method
\* and model
C22_OpenRouterRecordEmpty ==
    /\ provider = "openrouter"
    /\ stats.processed_slides >= 1
    /\ \E i \in 1..Len(stats.slide_methods) :
        /\ stats.slide_methods[i].method = "None"
        /\ stats.slide_methods[i].model = "None"

\* C23: once the cancel endpoint has committed the cancelled flag of a running
\* job, the pipeline starts at most one further provider call, in every
\* interleaving of the cancel request with a progress update of the same row:
\* a progress update never erases the flag or restores status processing.
C23_CancelObservedAtNextCheckpoint ==
    /\ calls_after_cancel <= 1
    /\ c_pc = "committed" => (job.cancelled /\ job.status = "failed")

\* a progress update refreshed before the cancel's commit and committed after
\* it: the flag is gone and two provider calls started after the cancel
C23_FlagErased ==
    /\ c_pc = "committed"
    /\ ~job.cancelled
    /\ calls_after_cancel = 2
    /\ t_pc = "returned"

\* C24: for each language pair the offline translator is instantiated at most
\* once in the life of the process, and every later call of translate_offline
\* for the pair reuses the cached instance, also when worker threads call it
\* for the same pair at the same time.
C24_TranslatorInstantiatedOnce ==
    /\ \A p \in Pairs : instantiated[p] <= 1
    /\ \A w \in Workers :
        (w_pc[w] = "idle" /\ w_translator[w] # 0) => w_translator[w] = 1

\* two threads missed the dict for the same pair and each instantiated a
\* translator
C24_TwoInstancesOfOnePair ==
    /\ \E p \in Pairs : instantiated[p] = 2 /\ ct2_translators[p] = 2
    /\ \A w \in Workers : w_pc[w] = "idle" /\ w_calls[w] = 1

\* the runs of a text region read back in order, and the blocks of a
\* line-grouped structure in order
RECURSIVE FrameRuns(_)
FrameRuns(paras) ==
    IF paras = <<>> THEN <<>> ELSE Head(paras).runs \o FrameRuns(Tail(paras))
RECURSIVE DocBlocks(_)
DocBlocks(structure) ==
    IF structure = <<>> THEN <<>>
    ELSE Head(structure).line_blocks \o DocBlocks(Tail(structure))

\* the texts of ts that show something, without their outer whitespace
VisibleTexts(ts) ==
    LET shown == SelectSeq(ts, LAMBDA t : strip(t) # <<>>)
    IN [k \in 1..Len(shown) |-> strip(shown[k])]
RunTexts(paras) == LET rs == FrameRuns(paras) IN [k \in 1..Len(rs) |-> rs[k].text]
BlockTexts(structure) ==
    LET bs == DocBlocks(structure) IN [k \in 1..Len(bs) |-> bs[k].translated]

RenderedLines == f_pc = "rendered" /\ provider = "claude"

C26_RedOnlyWhenBold ==
    f_pc = "rendered" =>
        /\ \A i \in 1..Len(f_frame) : \A k \in 1..Len(f_frame[i].runs) :
              f_frame[i].runs[k].color = S_red => f_frame[i].runs[k].bold
        /\ provider = "ocr_free" =>
              \A i \in 1..Len(parsed_doc.structure) :
                  LET fmt == parsed_doc.structure[i].formatting
                      run == f_frame[i].runs[1]
                  IN lower(fmt.color) = S_red =>
                        run.color = (IF fmt.bold THEN S_red ELSE S_black)
        /\ provider = "claude" =>
              LET blocks == SelectSeq(DocBlocks(parsed_doc.structure),
                                      LAMBDA b : strip(b.translated) # <<>>)
                  runs == SelectSeq(FrameRuns(f_frame),
                                    LAMBDA r : strip(r.text) # <<>>)
              IN \A k \in 1..Len(blocks) :
                    lower(blocks[k].formatting.color) = S_red =>
                        runs[k].color = (IF blocks[k].formatting.bold THEN S_red
                                                                      ELSE S_black)

\* both paths have rendered a red block that is not bold as black and a bold
\* red block as red
C26_BothRedsRendered ==
    /\ f_pc = "rendered"
    /\ \E i \in 1..Len(f_frame) : \E k \in 1..Len(f_frame[i].runs) :
          f_frame[i].runs[k].color = S_red /\ f_frame[i].runs[k].bold
    /\ \/ /\ provider = "ocr_free"
          /\ \E i \in 1..Len(parsed_doc.structure) :
                /\ parsed_doc.structure[i].formatting.color = S_red
                /\ ~parsed_doc.structure[i].formatting.bold
                /\ f_frame[i].runs[1].color = S_black
       \/ /\ provider = "claude"
          /\ json_text = LinesDoc(<<RenderPair, RenderBreak>>)
          /\ FrameRuns(f_frame)[2].color = S_black

\* the paragraphs a blank Line writes: one run holding one space
SpacerParagraph(para) == Len(para.runs) = 1 /\ para.runs[1].text = <<" ">>
SpacerCount(paras) == Cardinality({i \in 1..Len(paras) : SpacerParagraph(paras[i])})

\* the maximal runs of consecutive blank Lines of a structure
BlankRuns(structure) ==
    Cardinality({i \in 1..Len(structure) :
                    /\ structure[i].line_blocks = <<>>
                    /\ (i = 1 \/ structure[i - 1].line_blocks # <<>>)})

\* C27: in line-grouped rendering every run of one or more consecutive blank
\* Lines produces exactly one spacer paragraph, and no two spacer paragraphs
\* are adjacent.
C27_OneSpacerPerBlankRun ==
    RenderedLines =>
        /\ SpacerCount(f_frame) = BlankRuns(parsed_doc.structure)
        /\ \A i \in 1..(Len(f_frame) - 1) :
              ~(SpacerParagraph(f_frame[i]) /\ SpacerParagraph(f_frame[i + 1]))

\* a blank Line after a Line whose blocks all lack text left no spacer
\* paragraph
C27_BlankLineWithoutSpacer ==
    /\ RenderedLines
    /\ json_text = LinesDoc(<<RenderPair, RenderHollow, RenderBlank>>)
    /\ SpacerCount(f_frame) = 0
    /\ Len(f_frame) = 2

\* the selected slides with a picture in their left half, in document order
QualifyingSlides ==
    {j \in 1..NumSlides : slides[j].selected /\ has_image_on_left(slides[j])}

\* C28: when create_translated_ppt returns, processed_slides + skipped_slides
\* + failed_slides = total_slides, slide_methods has processed_slides +
\* failed_slides records, warnings has failed_slides entries, and the output
\* document holds one slide per selected slide with a qualifying picture, in
\* document order.
C28_StatsAddUp ==
    pc = "returned" =>
        /\ stats.processed_slides + stats.skipped_slides + stats.failed_slides
              = stats.total_slides
        /\ Len(stats.slide_methods) = stats.processed_slides + stats.failed_slides
        /\ Len(stats.warnings) = stats.failed_slides
        /\ new_slides = Cardinality(QualifyingSlides)
        /\ Len(text_frames) = new_slides
        /\ {text_frames[k].slide : k \in 1..Len(text_frames)} = QualifyingSlides
        /\ \A k \in 1..(Len(text_frames) - 1) :
              text_frames[k].slide < text_frames[k + 1].slide

\* a run returned with one slide processed and one failed, both in the output
C28_ReturnedWithFailedSlide ==
    /\ pc = "returned"
    /\ stats.processed_slides = 1
    /\ stats.failed_slides = 1
    /\ new_slides = 2
    /\ text_frames[1].slide = 1
    /\ text_frames[2].slide = 2

\* C29: across the successive calls of the progress callback in one run, in
\* every provider mode, current_step never decreases, is the count of selected
\* slides started so far, and never exceeds total_steps, so that the
\* persisted slides_processed never moves backwards while the run goes on.
C29_CurrentStepNeverDecreases ==
    [][ /\ last_call' # last_call =>
              /\ last_call'.current_step >= last_call.current_step
              /\ last_call'.current_step = selected_slide_counter
              /\ last_call'.current_step <= last_call'.total_steps
              /\ last_call'.total_steps = selected_slides_count
        /\ (pc \notin {"returned", "raised"} /\ job'.slides_processed # job.slides_processed)
              => job'.slides_processed > job.slides_processed ]_vars

\* the slide_method callback of the second slide of a deck, the only selected
\* one, has passed 2 of 2; the "completed" callback passes 1 of 1 next
C29_SlideMethodPassesSlideNumber ==
    /\ provider = "ocr_free"
    /\ pc = "cb_completed"
    /\ selected_slide_counter = 1
    /\ selected_slides_count = 1
    /\ last_call.current_step = 2
    /\ last_call.total_steps = 2
    /\ job.slides_processed = 2

\* C30: when the cancel endpoint has accepted a cancel request for a job, the
\* job's final persisted status is never "completed", whatever the
\* interleaving with the background pipeline; and a cancel request is accepted
\* whenever the pipeline of the job is still running.
C30_AcceptedCancelNeverCompleted ==
    /\ (pc = "done" /\ cancel.accepted) => job.status # "completed"
    /\ pc \notin {"done"} => job.status \in {"pending", "processing"} \/ job.cancelled

\* a cancel request accepted after the last checkpoint of the run: the job
\* ended completed
C30_CancelledJobCompleted ==
    /\ pc = "done"
    /\ cancel.accepted
    /\ job.cancelled
    /\ job.status = "completed"
    /\ exc = "None"

=============================================================================
